---------------------------- MODULE Spec2Model ----------------------------
(***************************************************************************)
(* Verification model of the CL-MOEEL evolutionary engine (src/core).      *)
(*                                                                         *)
(* The engine is single threaded.  Each area of the engine is modelled by  *)
(* its own group of variables and its own specification; the variables of  *)
(* the other areas stay idle.                                              *)
(*                                                                         *)
(*   Pareto area    comparator.py, ranking.py, density_estimator.py,       *)
(*                  replacement.py                                         *)
(*   Genome area    solution.py, crossover.py, mutation.py,                *)
(*                  problem.py (fix_solution), and the pair loop of        *)
(*                  __OutsideClusterCrossover in moeec_nsgaii.py           *)
(*   Decider area   strategy.py (update_memory of the adaptive deciders)   *)
(*   Selection area moeec_nsgaii.py (selection of v1, v3 and v5),          *)
(*                  selection.py, comparator.py (SlackComparator)          *)
(*                                                                         *)
(* Objective values are small naturals.  Crowding distances are exact      *)
(* rationals (num/den, reduced) or +inf; the source uses IEEE doubles.     *)
(*                                                                         *)
(* The genome area follows two MOEESolution objects through the operator   *)
(* calls of reproduction.  A call of execute deep-copies its parents, so   *)
(* the two objects it returns are the ones followed from there on; the     *)
(* copies that __OutsideClusterCrossover hands to replace_by are dropped   *)
(* when the pair is done.  objectives and model of a genome belong to the  *)
(* evaluator and are not part of this area.                                *)
(***************************************************************************)
EXTENDS Integers, Sequences, FiniteSets, TLC

(***************************************************************************)
(* Bounds of the model                                                     *)
(***************************************************************************)
MaxObj1 == 2
MaxObj2 == 1
MaxObj3 == 1
MaxParents == 2
MaxOffspring == 2
MaxSolutions == 4
MaxFront == 3
MaxRows == 3
MaxPool == 4
MaxOver == 1
MaxRepaired == 1
MaxLP == 2
MaxTagged == 2
MaxPopulation == 3
MaxSlackObj == 1
MaxJoin == 3
MaxEpoch == 2
MaxRunK == 2
MaxInitialK == 1
MaxCalls == 3
MaxLogged == 1
MaxExecuteRows == 1
MaxWheel == 3
WheelGrid == 4
RunPopulationSize == 3

(***************************************************************************)
(* Program constants                                                       *)
(***************************************************************************)
number_of_objectives == 3
para_n == 13
sample_n == 40

VARIABLES
    \* ---- Pareto area ----
    objectives,          \* objectives[i]: the objective triple of genome i of the list handed in
    population_size,     \* len(solution_list) of replace(); 0 when replace() is not the subject
    removal_policy,      \* RankingAndDensityEstimatorReplacement.removal_policy
    ranked_sublists,     \* Ranking.ranked_sublists (fronts of genome indices)
    dominance_ranking,   \* attributes['dominance_ranking'] of each genome, NoRank when absent
    crowding_distance,   \* attributes['crowding_distance'] of each genome
    result_list,         \* the list returned by the last call
    compare_result,      \* the value returned by DominanceComparator.compare
    called               \* the operation that has run ("none" after construction)

paretoVars == <<objectives, population_size, removal_policy, ranked_sublists,
                dominance_ranking, crowding_distance, result_list,
                compare_result, called>>

VARIABLES
    \* ---- Genome area ----
    genomes,                \* the two MOEESolution objects in flight: [k, variables, attributes]
    solution_length_maximum,  \* params["solution_length_maximum"]
    fixed_length,             \* MOEEProblem.fixed_length (-1: variable-length encoding)
    lastcall,                 \* the operator call that ended last
    repaired                  \* number of fix_solution calls so far

genomeVars == <<genomes, solution_length_maximum, fixed_length, lastcall, repaired>>

NoCall == [op |-> "none", branch |-> "", vs |-> "", gs |-> "", target |-> 0, err |-> ""]

GenomeIdle ==
    /\ genomes = <<>>
    /\ solution_length_maximum = 0
    /\ fixed_length = -1
    /\ lastcall = NoCall
    /\ repaired = 0

VARIABLES
    \* ---- Decider area ----
    decider,                \* class of the adaptive decider
    LP,                     \* learning period
    success_memory,         \* one row of per-strategy success counts per generation
    fail_memory,            \* one row of per-strategy failure counts per generation
    probability,                   \* <<p1, p2>> or <<p1, p2, p3>>
    memory_call             \* what the last update_memory did: "none", "appended", "updated"

deciderVars == <<decider, LP, success_memory, fail_memory, probability,
                 memory_call>>

DeciderIdle ==
    /\ decider = "None"
    /\ LP = 0
    /\ success_memory = <<>>
    /\ fail_memory = <<>>
    /\ probability = <<>>
    /\ memory_call = "none"

VARIABLES
    \* ---- Selection area ----
    pop,                    \* the population: [cluster_label, objectives] per genome
    selection_operator,     \* get_name() of the selection operator
    threshold,              \* threshold1..3 of the operator's SlackComparator
    advantage_objs,         \* the map recorded by v3.selection, clusters 0..2
    mating_population,      \* positions in pop of the genomes selected
    drawn_from,             \* the cluster key each entry of the pool was drawn for
    selected                \* selection() has returned

selectionVars == <<pop, selection_operator, threshold, advantage_objs,
                   mating_population, drawn_from, selected>>

SelectionIdle ==
    /\ pop = <<>>
    /\ selection_operator = "None"
    /\ threshold = <<>>
    /\ advantage_objs = <<>>
    /\ mating_population = <<>>
    /\ drawn_from = <<>>
    /\ selected = FALSE

VARIABLES
    \* ---- Slack area ----
    candidates,             \* the genomes handed in: [objectives] each
    parents_len,            \* len(solution_list) of replace(); the rest are offspring
    elite_ratio,            \* elite_ratio of the replacement
    comparator_thresholds,  \* <<threshold1, threshold2, threshold3>> of the
                            \* SlackComparator, <<>> while the attributes do not exist
    preferred,              \* prefer_obj of the last compare
    slack_result,           \* the flag of compare(), or the list of replace()
    slack_called            \* "none", "compare", "replace", or the error raised

slackVars == <<candidates, parents_len, elite_ratio, comparator_thresholds,
               preferred, slack_result, slack_called>>

SlackIdle ==
    /\ candidates = <<>>
    /\ parents_len = 0
    /\ elite_ratio = <<0, 1>>
    /\ comparator_thresholds = <<>>
    /\ preferred = "None"
    /\ slack_result = <<>>
    /\ slack_called = "none"

VARIABLES
    \* ---- Run area ----
    pc,                     \* where run() stands
    crossover_method,       \* crossover_method of MOEEC_NSGAII_v5
    max_epoch,              \* number of generations of the run
    epoch,                  \* self.epoch, -1 before the loop
    heap,                   \* the genome objects: [k, objectives, cluster_label,
                            \* strategy, strategy_flag] each
    self_pop,               \* self.pop: references into heap
    parents_population,     \* the deep copy taken by step(): references into heap
    mating_pool,            \* what selection returned: references into heap
    offspring_population,   \* what reproduction returned: references into heap
    produced_by,            \* the crossover that produced each entry of the
                            \* offspring pool in this generation, "no" for none
    log_pop,                \* recorder.log_pop: one snapshot per key 0, 1, ...
    error                   \* the error that ended the run, "" for none

runVars == <<pc, crossover_method, max_epoch, epoch, heap, self_pop,
             parents_population, mating_pool, offspring_population, produced_by,
             log_pop, error>>

RunIdle ==
    /\ pc = "idle"
    /\ crossover_method = "None"
    /\ max_epoch = 0
    /\ epoch = -1
    /\ heap = <<>>
    /\ self_pop = <<>>
    /\ parents_population = <<>>
    /\ mating_pool = <<>>
    /\ offspring_population = <<>>
    /\ produced_by = <<>>
    /\ log_pop = <<>>
    /\ error = ""

\* what the calls of each area leave alone
VARIABLES
    \* ---- Decider call log ----
    reported                \* one entry per update_memory call observed, oldest first:
                            \* [total, survived], the per-strategy counts of flagged
                            \* genomes in pop1 and in pop2 (kept for the properties)

logVars == <<reported>>

LogIdle == reported = <<>>

VARIABLES
    \* ---- Crossover operator as constructed ----
    self_variation_strategy,  \* VariableLengthCrossover.choose_variation_strategy
    self_gene_crossover,      \* VariableLengthCrossover.choose_gene_crossover
    passed_strategies         \* <<choose_variation_strategy, choose_gene_crossover>>
                              \* handed to the last execute(), "None" when left out

ctorVars == <<self_variation_strategy, self_gene_crossover, passed_strategies>>

CtorIdle ==
    /\ self_variation_strategy = "TBD"
    /\ self_gene_crossover = "TBD"
    /\ passed_strategies = <<>>

VARIABLES
    \* ---- One call of reproduction ----
    algorithm,              \* the class of the algorithm object, "none" outside this area
    offspring_keys          \* for each entry of the returned pool, the number of the
                            \* key of sub_offspring_populations whose list it came from

reproVars == <<algorithm, offspring_keys>>

ReproIdle ==
    /\ algorithm = "none"
    /\ offspring_keys = <<>>

VARIABLES
    \* ---- Roulette wheel ----
    wheel_front,            \* objectives[0] of each solution of the front handed in
    wheel_rand,             \* the value of random.uniform(0.0, maximum), a rational
    wheel_result            \* what execute() did: "none" before the call, the position
                            \* of the solution returned, "None", or "Exception"

wheelVars == <<wheel_front, wheel_rand, wheel_result>>

WheelIdle ==
    /\ wheel_front = <<>>
    /\ wheel_rand = <<0, 1>>
    /\ wheel_result = "none"

VARIABLES
    \* ---- Non-dominated archive ----
    solution_list,          \* NonDominatedSolutionsArchive.solution_list: the
                            \* objectives of each member
    added,                  \* the objectives of the solution of the last add(), <<>> before
    add_returned            \* what the last add() returned, "none" before

archiveVars == <<solution_list, added, add_returned>>

ArchiveIdle ==
    /\ solution_list = <<>>
    /\ added = <<>>
    /\ add_returned = "none"

otherThanParetoVars == <<genomeVars, deciderVars, selectionVars, slackVars, runVars, logVars, ctorVars, reproVars, wheelVars, archiveVars>>
otherThanGenomeVars == <<paretoVars, deciderVars, selectionVars, slackVars, runVars, logVars, ctorVars, reproVars, wheelVars, archiveVars>>
otherThanDeciderVars == <<paretoVars, genomeVars, selectionVars, slackVars, runVars, logVars, ctorVars, reproVars, wheelVars, archiveVars>>
otherThanSelectionVars == <<paretoVars, genomeVars, deciderVars, slackVars, runVars, logVars, ctorVars, reproVars, wheelVars, archiveVars>>
otherThanSlackVars == <<paretoVars, genomeVars, deciderVars, selectionVars, runVars, logVars, ctorVars, reproVars, wheelVars, archiveVars>>
\* the run owns a CrossoverStrategyDecider: the decider variables are part of its state
otherThanRunVars == <<paretoVars, genomeVars, selectionVars, slackVars, logVars, ctorVars, reproVars, wheelVars, archiveVars>>
otherThanLoggedDeciderVars == <<paretoVars, genomeVars, selectionVars, slackVars, runVars, ctorVars, reproVars, wheelVars, archiveVars>>
otherThanExecuteVars == <<paretoVars, deciderVars, selectionVars, slackVars, runVars, logVars, reproVars, wheelVars, archiveVars>>
otherThanReproductionVars == <<paretoVars, genomeVars, selectionVars, slackVars, logVars, ctorVars, wheelVars, archiveVars>>
otherThanWheelVars == <<paretoVars, genomeVars, deciderVars, selectionVars, slackVars, runVars, logVars, ctorVars, reproVars, archiveVars>>
otherThanArchiveVars == <<paretoVars, genomeVars, deciderVars, selectionVars, slackVars, runVars, logVars, ctorVars, reproVars, wheelVars>>
OtherThanParetoIdle == GenomeIdle /\ DeciderIdle /\ SelectionIdle /\ SlackIdle /\ RunIdle /\ LogIdle /\ CtorIdle /\ ReproIdle /\ WheelIdle /\ ArchiveIdle

(***************************************************************************)
(* Generic helpers                                                         *)
(***************************************************************************)
Range(s) == {s[i] : i \in 1..Len(s)}

Abs(x) == IF x < 0 THEN -x ELSE x

RECURSIVE GCD(_, _)
GCD(a, b) == IF b = 0 THEN a ELSE GCD(b, a % b)

RECURSIVE SumSeq(_)
SumSeq(s) == IF s = <<>> THEN 0 ELSE Head(s) + SumSeq(Tail(s))

RECURSIVE Flatten(_)
Flatten(ss) == IF ss = <<>> THEN <<>> ELSE Head(ss) \o Flatten(Tail(ss))

SeqsUpTo(S, lo, hi) == UNION {[1..n -> S] : n \in lo..hi}

\* the sequence f as an explicit tuple (evaluated once, not on every use)
Eager(f) == SubSeq(f, 1, Len(f))

\* list.sort / sorted: a stable sort, lt[<<a, b>>] is "a goes strictly before b"
StableSort(s, lt) ==
    LET n == Len(s)
        pos(i) == Cardinality({j \in 1..n :
                      \/ lt[<<s[j], s[i]>>]
                      \/ (~lt[<<s[i], s[j]>>] /\ j < i)}) + 1
    IN Eager([p \in 1..n |-> s[CHOOSE i \in 1..n : pos(i) = p]])

(***************************************************************************)
(* Crowding distance values                                                *)
(***************************************************************************)
Unset == [set |-> FALSE, inf |-> FALSE, num |-> 0, den |-> 1]
Inf   == [set |-> TRUE,  inf |-> TRUE,  num |-> 0, den |-> 1]
Fin(n, d) == LET g == GCD(Abs(n), d)
             IN [set |-> TRUE, inf |-> FALSE, num |-> n \div g, den |-> d \div g]
Zero == Fin(0, 1)

\* float addition: anything + inf = inf
CDAdd(a, b) == IF a.inf \/ b.inf THEN Inf
               ELSE Fin(a.num * b.den + b.num * a.den, a.den * b.den)

CDLess(a, b) == IF a.inf THEN FALSE
                ELSE IF b.inf THEN TRUE
                ELSE a.num * b.den < b.num * a.den

NoRank == -1

(***************************************************************************)
(* comparator.py                                                           *)
(***************************************************************************)
RECURSIVE DominanceLoop(_, _, _, _)
DominanceLoop(vector1, vector2, i, result) ==
    IF i > Len(vector1) THEN result
    ELSE IF vector1[i] > vector2[i]
         THEN IF result = -1 THEN 0 ELSE DominanceLoop(vector1, vector2, i + 1, 1)
    ELSE IF vector2[i] > vector1[i]
         THEN IF result = 1 THEN 0 ELSE DominanceLoop(vector1, vector2, i + 1, -1)
    ELSE DominanceLoop(vector1, vector2, i + 1, result)

\* a plausible slip: the last differing objective decides, no early return of 0
RECURSIVE DominanceLoopLastWins(_, _, _, _)
DominanceLoopLastWins(vector1, vector2, i, result) ==
    IF i > Len(vector1) THEN result
    ELSE IF vector1[i] > vector2[i] THEN DominanceLoopLastWins(vector1, vector2, i + 1, 1)
    ELSE IF vector2[i] > vector1[i] THEN DominanceLoopLastWins(vector1, vector2, i + 1, -1)
    ELSE DominanceLoopLastWins(vector1, vector2, i + 1, result)

DominanceCompareLastWins(vector1, vector2) == DominanceLoopLastWins(vector1, vector2, 1, 0)

DominanceCompare(vector1, vector2) == DominanceLoop(vector1, vector2, 1, 0)

\* SolutionAttributeComparator(key, lowest_is_best).compare on two attribute values
\* (crowding distances); an absent attribute compares equal to everything
AttributeCompare(value1, value2, lowest_is_best) ==
    IF ~value1.set \/ ~value2.set THEN 0
    ELSE IF lowest_is_best
         THEN IF CDLess(value1, value2) THEN -1
              ELSE IF CDLess(value2, value1) THEN 1 ELSE 0
         ELSE IF CDLess(value2, value1) THEN -1
              ELSE IF CDLess(value1, value2) THEN 1 ELSE 0


(***************************************************************************)
(* ranking.py : FastNonDominatedRanking.compute_ranking (k unset)          *)
(***************************************************************************)
RECURSIVE SortedSeqOf(_)
SortedSeqOf(S) == IF S = {} THEN <<>>
                  ELSE LET m == CHOOSE x \in S : \A y \in S : x <= y
                       IN <<m>> \o SortedSeqOf(S \ {m})

\* the double loop over p < q: who dominates whom, as the comparator reports it
Dominates(solutions, p, q) ==
    IF p < q THEN DominanceCompare(solutions[p], solutions[q]) = -1
    ELSE IF q < p THEN DominanceCompare(solutions[q], solutions[p]) = 1
    ELSE FALSE

\* ith_dominated[p]: appended in the order of the (p, q) loop, i.e. ascending
IthDominated(solutions, p) ==
    SortedSeqOf({q \in 1..Len(solutions) : Dominates(solutions, p, q)})

DominatingIth(solutions) ==
    Eager([q \in 1..Len(solutions) |->
        Cardinality({p \in 1..Len(solutions) : Dominates(solutions, p, q)})])

\* for q in ith_dominated[p]: decrement, append to the next front on reaching 0
RECURSIVE VisitDominated(_, _, _, _, _)
VisitDominated(edges, count, nextFront, ranking, i) ==
    IF edges = <<>> THEN [count |-> count, front |-> nextFront, ranking |-> ranking]
    ELSE LET q == Head(edges)
             c == [count EXCEPT ![q] = @ - 1]
         IN IF c[q] = 0
            THEN VisitDominated(Tail(edges), c, Append(nextFront, q),
                                [ranking EXCEPT ![q] = i], i)
            ELSE VisitDominated(Tail(edges), c, nextFront, ranking, i)

\* while len(front[i]) != 0: i += 1; fill front[i] from front[i - 1]
RECURSIVE PeelFronts(_, _, _, _)
PeelFronts(solutions, front, count, ranking) ==
    LET i == Len(front)            \* front[i] of the source is front[Len(front)] here
        last == front[i]
    IN IF last = <<>>
       THEN [fronts |-> SubSeq(front, 1, i - 1), ranking |-> ranking]
       ELSE LET edges == Flatten(Eager([j \in 1..Len(last) |-> IthDominated(solutions, last[j])]))
                r == VisitDominated(edges, count, <<>>, ranking, i)
            IN PeelFronts(solutions, Append(front, r.front), r.count, r.ranking)

\* a plausible slip: every dominated genome joins the next front at once
ComputeRankingNoCount(solutions, ranking) ==
    LET n == Len(solutions)
        f0 == SortedSeqOf({i \in 1..n : DominatingIth(solutions)[i] = 0})
        f1 == SortedSeqOf((1..n) \ Range(f0))
    IN [fronts |-> IF f0 = <<>> THEN <<>> ELSE IF f1 = <<>> THEN <<f0>> ELSE <<f0, f1>>,
        ranking |-> Eager([i \in 1..n |-> IF i \in Range(f0) THEN 0 ELSE 1])]

\* returns ranked_sublists and the dominance_ranking attributes
ComputeRanking(solutions, ranking) ==
    LET n == Len(solutions)
        count == DominatingIth(solutions)
        f0 == SortedSeqOf({i \in 1..n : count[i] = 0})
        r0 == Eager([i \in 1..n |-> IF count[i] = 0 THEN 0 ELSE ranking[i]])
    IN PeelFronts(solutions, <<f0>>, count, r0)

(***************************************************************************)
(* density_estimator.py : CrowdingDistance                                 *)
(***************************************************************************)
ByObjective(solutions, i) ==
    [pr \in (1..Len(solutions)) \X (1..Len(solutions)) |->
        solutions[pr[1]][i] < solutions[pr[2]][i]]

\* for j in range(1, size - 1)
RECURSIVE DensityInterior(_, _, _, _, _)
DensityInterior(solutions, front, i, j, cd) ==
    IF j > Len(front) - 1 THEN cd
    ELSE LET objective_minn == solutions[front[1]][i]
             objective_maxn == solutions[front[Len(front)]][i]
             diff == solutions[front[j + 1]][i] - solutions[front[j - 1]][i]
             distance == IF objective_maxn - objective_minn = 0
                         THEN Fin(diff, 1)
                         ELSE Fin(diff, objective_maxn - objective_minn)
         IN DensityInterior(solutions, front, i, j + 1,
                            [cd EXCEPT ![front[j]] = CDAdd(distance, cd[front[j]])])

\* for i in range(number_of_objectives): front is re-sorted from its last order
RECURSIVE DensityObjectives(_, _, _, _)
DensityObjectives(solutions, front, i, cd) ==
    IF i > number_of_objectives THEN cd
    ELSE LET sorted == StableSort(front, ByObjective(solutions, i))
             size == Len(sorted)
             ends == [[cd EXCEPT ![sorted[1]] = Inf] EXCEPT ![sorted[size]] = Inf]
         IN DensityObjectives(solutions, sorted, i + 1,
                              DensityInterior(solutions, sorted, i, 2, ends))

\* a plausible slip: the division by (max - min) is left out
RECURSIVE DensityInteriorNoDiv(_, _, _, _, _)
DensityInteriorNoDiv(solutions, front, i, j, cd) ==
    IF j > Len(front) - 1 THEN cd
    ELSE LET diff == solutions[front[j + 1]][i] - solutions[front[j - 1]][i]
         IN DensityInteriorNoDiv(solutions, front, i, j + 1,
                [cd EXCEPT ![front[j]] = CDAdd(Fin(diff, 1), cd[front[j]])])

RECURSIVE DensityObjectivesNoDiv(_, _, _, _)
DensityObjectivesNoDiv(solutions, front, i, cd) ==
    IF i > number_of_objectives THEN cd
    ELSE LET sorted == StableSort(front, ByObjective(solutions, i))
             size == Len(sorted)
             ends == [[cd EXCEPT ![sorted[1]] = Inf] EXCEPT ![sorted[size]] = Inf]
         IN DensityObjectivesNoDiv(solutions, sorted, i + 1,
                              DensityInteriorNoDiv(solutions, sorted, i, 2, ends))

ComputeDensityEstimatorNoDiv(solutions, front, cd) ==
    LET size == Len(front)
    IN IF size = 0 THEN cd
       ELSE IF size = 1 THEN [cd EXCEPT ![front[1]] = Inf]
       ELSE IF size = 2 THEN [[cd EXCEPT ![front[1]] = Inf] EXCEPT ![front[2]] = Inf]
       ELSE DensityObjectivesNoDiv(solutions, front, 1,
                Eager([g \in DOMAIN cd |-> IF g \in Range(front) THEN Zero ELSE cd[g]]))

\* returns the crowding_distance attributes after the call
ComputeDensityEstimator(solutions, front, cd) ==
    LET size == Len(front)
    IN IF size = 0 THEN cd
       ELSE IF size = 1 THEN [cd EXCEPT ![front[1]] = Inf]
       ELSE IF size = 2 THEN [[cd EXCEPT ![front[1]] = Inf] EXCEPT ![front[2]] = Inf]
       ELSE DensityObjectives(solutions, front, 1,
                Eager([g \in DOMAIN cd |-> IF g \in Range(front) THEN Zero ELSE cd[g]]))

\* CrowdingDistance.sort: descending crowding distance, stable
DensitySort(list, cd) ==
    StableSort(list, [pr \in (DOMAIN cd) \X (DOMAIN cd) |->
                         AttributeCompare(cd[pr[1]], cd[pr[2]], FALSE) < 0])

(***************************************************************************)
(* replacement.py : RankingAndDensityEstimatorReplacement                  *)
(***************************************************************************)
InvalidRank == [list |-> <<>>, cd |-> <<>>, sublists |-> <<>>, err |-> "Invalid rank"]

\* while len(result_list) > size: sort, del result_list[-1], recompute
RECURSIVE RemoveWorst(_, _, _, _)
RemoveWorst(solutions, result, size, cd) ==
    IF Len(result) > size
    THEN LET sorted == DensitySort(result, cd)
             kept == SubSeq(sorted, 1, Len(sorted) - 1)
         IN RemoveWorst(solutions, kept, size, ComputeDensityEstimator(solutions, kept, cd))
    ELSE [list |-> result, cd |-> cd]

\* ranking_id counts from 0 as in the source
RECURSIVE sequential_truncation(_, _, _, _, _)
sequential_truncation(solutions, sublists, cd, ranking_id, size_of_the_result_list) ==
    IF ranking_id >= Len(sublists) THEN InvalidRank
    ELSE LET current == sublists[ranking_id + 1]
             cd1 == ComputeDensityEstimator(solutions, current, cd)
         IN IF Len(current) < size_of_the_result_list
            THEN LET rest == sequential_truncation(solutions, sublists, cd1, ranking_id + 1,
                                 size_of_the_result_list - Len(current))
                 IN IF rest.err # "" THEN InvalidRank
                    ELSE [rest EXCEPT !.list = current \o rest.list]
            ELSE LET r == RemoveWorst(solutions, current, size_of_the_result_list, cd1)
                 IN [list |-> r.list, cd |-> r.cd, sublists |-> sublists, err |-> ""]

\* a plausible slip: "<=" in the while condition takes one genome too many
TakeSortedOneTooMany(sorted, size_of_the_result_list) ==
    SubSeq(sorted, 1, IF size_of_the_result_list < Len(sorted)
                      THEN size_of_the_result_list + 1 ELSE Len(sorted))

\* i = 0; while len(result_list) < size: result_list.append(current[i]); i += 1
TakeSorted(sorted, size_of_the_result_list) ==
    SubSeq(sorted, 1, size_of_the_result_list)

RECURSIVE one_shot_truncation(_, _, _, _, _)
one_shot_truncation(solutions, sublists, cd, ranking_id, size_of_the_result_list) ==
    IF ranking_id >= Len(sublists) THEN InvalidRank
    ELSE LET current == sublists[ranking_id + 1]
             cd1 == ComputeDensityEstimator(solutions, current, cd)
         IN IF Len(current) < size_of_the_result_list
            THEN LET rest == one_shot_truncation(solutions, sublists, cd1, ranking_id + 1,
                                 size_of_the_result_list - Len(current))
                 IN IF rest.err # "" THEN InvalidRank
                    ELSE [rest EXCEPT !.list = current \o rest.list]
            ELSE LET sorted == DensitySort(current, cd1)     \* sorts the sublist in place
                 IN [list |-> TakeSorted(sorted, size_of_the_result_list), cd |-> cd1,
                     sublists |-> [sublists EXCEPT ![ranking_id + 1] = sorted], err |-> ""]

\* a plausible slip: the truncation starts at the second front
replaceFromSecondFront(solutions, n, policy, ranking) ==
    LET rk == ComputeRanking(solutions, ranking)
        cd0 == Eager([g \in 1..Len(solutions) |-> Unset])
        first == IF Len(rk.fronts) > 1 /\ Len(solutions) - Len(rk.fronts[1]) >= n
                 THEN 1 ELSE 0
        r == IF policy = "ONE_SHOT"
             THEN sequential_truncation(solutions, rk.fronts, cd0, first, n)
             ELSE one_shot_truncation(solutions, rk.fronts, cd0, first, n)
    IN [list |-> r.list, cd |-> r.cd, err |-> r.err, ranking |-> rk.ranking,
        sublists |-> IF r.err = "" THEN r.sublists ELSE rk.fronts]

\* replace(solution_list, offspring_list): solutions is the joined list,
\* n = len(solution_list)
replace(solutions, n, policy, ranking) ==
    LET rk == ComputeRanking(solutions, ranking)
        cd0 == Eager([g \in 1..Len(solutions) |-> Unset])
        r == IF policy = "ONE_SHOT"
             THEN sequential_truncation(solutions, rk.fronts, cd0, 0, n)
             ELSE IF policy = "SEQUENTIAL"
             THEN one_shot_truncation(solutions, rk.fronts, cd0, 0, n)
             ELSE [InvalidRank EXCEPT !.err = "AttributeError"]
    IN [list |-> r.list, cd |-> r.cd, err |-> r.err, ranking |-> rk.ranking,
        sublists |-> IF r.err = "" THEN r.sublists ELSE rk.fronts]

(***************************************************************************)
(* Pareto area: state after construction and the calls                     *)
(***************************************************************************)
Triples == (0..MaxObj1) \X (0..MaxObj2) \X (0..MaxObj3)

\* the end-to-end scenario of the non-dominated sort
ScenarioObjectives == << <<1, 5, 2>>, <<2, 1, 9>>, <<3, 3, 3>> >>

ParetoFresh ==
    /\ ranked_sublists = <<>>
    /\ dominance_ranking = [g \in DOMAIN objectives |-> NoRank]
    /\ crowding_distance = [g \in DOMAIN objectives |-> Unset]
    /\ result_list = <<>>
    /\ compare_result = 0
    /\ called = "none"

ParetoIdle ==
    /\ objectives = <<>>
    /\ population_size = 0
    /\ removal_policy = "ONE_SHOT"
    /\ ParetoFresh

InitCompare ==
    /\ objectives \in [1..2 -> Triples]
    /\ population_size = 0
    /\ removal_policy = "ONE_SHOT"
    /\ ParetoFresh
    /\ OtherThanParetoIdle

InitRanking ==
    /\ objectives \in SeqsUpTo(Triples, 1, MaxSolutions) \cup {ScenarioObjectives}
    /\ population_size = 0
    /\ removal_policy = "ONE_SHOT"
    /\ ParetoFresh
    /\ OtherThanParetoIdle

InitFront ==
    /\ objectives \in SeqsUpTo(Triples, 1, MaxFront)
    /\ population_size = 0
    /\ removal_policy = "ONE_SHOT"
    /\ ParetoFresh
    /\ OtherThanParetoIdle

InitReplace ==
    /\ population_size \in 1..MaxParents
    /\ \E m \in 0..MaxOffspring : objectives \in [1..(population_size + m) -> Triples]
    /\ removal_policy \in {"ONE_SHOT", "SEQUENTIAL"}
    /\ ParetoFresh
    /\ OtherThanParetoIdle

\* DominanceComparator.compare(solutions[p], solutions[q])
Compare(p, q) ==
    /\ called = "none"
    /\ compare_result' = DominanceCompare(objectives[p], objectives[q])
    /\ result_list' = <<p, q>>
    /\ called' = "compare"
    /\ UNCHANGED <<objectives, population_size, removal_policy, ranked_sublists,
                   dominance_ranking, crowding_distance, otherThanParetoVars>>

\* FastNonDominatedRanking.compute_ranking(solutions)
ComputeRankingCall ==
    /\ called = "none"
    /\ \E rk \in {ComputeRanking(objectives, dominance_ranking)} :
          /\ ranked_sublists' = rk.fronts
          /\ dominance_ranking' = rk.ranking
          /\ result_list' = Flatten(rk.fronts)
    /\ called' = "compute_ranking"
    /\ UNCHANGED <<objectives, population_size, removal_policy, crowding_distance,
                   compare_result, otherThanParetoVars>>

\* CrowdingDistance.compute_density_estimator(front), front = the whole list
ComputeDensityCall ==
    /\ called = "none"
    /\ crowding_distance' = ComputeDensityEstimator(objectives,
                                Eager([i \in 1..Len(objectives) |-> i]), crowding_distance)
    /\ called' = "compute_density_estimator"
    /\ UNCHANGED <<objectives, population_size, removal_policy, ranked_sublists,
                   dominance_ranking, result_list, compare_result, otherThanParetoVars>>

\* RankingAndDensityEstimatorReplacement.replace(solution_list, offspring_list)
Replace ==
    /\ called = "none"
    /\ \E r \in {replace(objectives, population_size, removal_policy, dominance_ranking)} :
          /\ ranked_sublists' = r.sublists
          /\ dominance_ranking' = r.ranking
          /\ crowding_distance' = IF r.err = "" THEN r.cd ELSE crowding_distance
          /\ result_list' = r.list
          /\ called' = IF r.err = "" THEN "replace" ELSE r.err
    /\ UNCHANGED <<objectives, population_size, removal_policy, compare_result,
                   otherThanParetoVars>>

(***************************************************************************)
(* Parameter values: exact non-negative rationals <<num, den>>, reduced;   *)
(* <<1, 0>> is +inf and <<0, 0>> is NaN (the source uses IEEE doubles).    *)
(***************************************************************************)
NaN == <<0, 0>>
RatInf == <<1, 0>>

Rat(num, den) == IF den = 0 THEN (IF num = 0 THEN NaN ELSE RatInf)
                 ELSE LET g == GCD(num, den) IN <<num \div g, den \div g>>

RatInt(i) == <<i, 1>>

RatAdd(a, b) == IF a = NaN \/ b = NaN THEN NaN
                ELSE IF a[2] = 0 \/ b[2] = 0 THEN RatInf
                ELSE Rat(a[1] * b[2] + b[1] * a[2], a[2] * b[2])

RatDiv(a, b) == IF a = NaN \/ b = NaN THEN NaN
                ELSE IF a[2] = 0 THEN (IF b[2] = 0 THEN NaN ELSE RatInf)
                ELSE IF b[2] = 0 THEN RatInt(0)
                ELSE Rat(a[1] * b[2], a[2] * b[1])

RatLeq(a, b) == a[2] # 0 /\ b[2] # 0 /\ a[1] * b[2] <= b[1] * a[2]

\* Python round(): to the nearest integer, a tie goes to the even one
Round(a) == LET f == a[1] \div a[2]
                r2 == 2 * (a[1] - f * a[2])
            IN  IF r2 < a[2] THEN RatInt(f)
                ELSE IF r2 > a[2] THEN RatInt(f + 1)
                ELSE IF f % 2 = 0 THEN RatInt(f) ELSE RatInt(f + 1)

RECURSIVE RatSum(_, _, _)
\* the sum of s[lo..hi], halving the range
RatSum(s, lo, hi) == IF lo > hi THEN RatInt(0)
                     ELSE IF lo = hi THEN s[lo]
                     ELSE LET mid == (lo + hi) \div 2
                          IN  RatAdd(RatSum(s, lo, mid), RatSum(s, mid + 1, hi))

\* np.sum: a NaN among the terms makes the sum NaN
NpSum(s) == RatSum(s, 1, Len(s))

\* pandas Series.sum(): NaN terms are skipped
PdSum(s) == RatSum(Eager([i \in 1..Len(s) |-> IF s[i] = NaN THEN RatInt(0) ELSE s[i]]),
                   1, Len(s))

(***************************************************************************)
(* solution.py : MOEESolution                                              *)
(***************************************************************************)
para_low  == <<0, 0, 2, 0, 0, 0, 0, 0, 0, 0, 0, 0, 0>>
para_high == <<1, 10, 6, 1, 1, 1, 10, 1, 1, 1, 1, 1, 1>>

\* positions of 'poly_degree', 'w1'..'w5' and 'W' in para_names
poly_degree == 3
w_first == 8
w_last == 12
W == 13

OddFields == {i \in 1..para_n : i % 2 = 1}

\* the fields that a draw of random.uniform(low, high) puts at the upper end
\* of their interval (the other fields are at the lower end)
HighSets == {{}, OddFields, 1..para_n}

\* the fields that pass a per-field probability gate (SBX, polynomial mutation)
FieldSets == {{}, 1..para_n}

UniformRow(H) == [i \in 1..para_n |->
                    IF i \in H THEN RatInt(para_high[i]) ELSE RatInt(para_low[i])]

RowDraws == {UniformRow(H) : H \in HighSets}

NoAttributes == [strategy |-> "None", strategy_flag |-> 0]

\* the DataFrame built from a parameter matrix, index mkSVR0..mkSVR(k-1)
DataFrame(rows) == Eager([i \in 1..Len(rows) |-> [index |-> i - 1, values |-> rows[i]]])

MOEESolution(rows) == [k |-> Len(rows), variables |-> DataFrame(rows),
                       attributes |-> NoAttributes]

RowsOf(frame) == Eager([i \in 1..Len(frame) |-> frame[i].values])

update_infoStaleK(s) == [s EXCEPT !.variables = DataFrame(RowsOf(s.variables))]

update_info(s) == [s EXCEPT !.k = Len(s.variables),
                            !.variables = DataFrame(RowsOf(s.variables))]

replace_by(self, s) == [self EXCEPT !.k = s.k, !.variables = s.variables,
                                    !.attributes = s.attributes]

(***************************************************************************)
(* crossover.py                                                            *)
(*                                                                         *)
(* The random numbers an operator draws are its argument rnd.  A secondary *)
(* crossover works on two rows; SBX is projected on the ends of the        *)
(* interval spanned by the two parent values: a field that is crossed      *)
(* keeps the two values, in either order.                                  *)
(***************************************************************************)
VariationStrategies == {"variation1", "variation2", "fixed"}
GeneStrategies == {"sbx", "swap", "nothing"}

\* frame.iloc[positions]
Iloc(frame, positions) == Eager([i \in 1..Len(positions) |-> frame[positions[i]]])

\* the outcomes of random.shuffle(list(range(m))), as positions 1..m
Perms(m) == {p \in [1..m -> 1..m] : \A i, j \in 1..m : p[i] = p[j] => i = j}

Exchange(x1, x2, F) == [i \in 1..para_n |-> IF i \in F THEN x2[i] ELSE x1[i]]

\* crossed: the fields that are crossed and handed to the other child
SBXCrossover(x1, x2, crossed) == <<Exchange(x1, x2, crossed), Exchange(x2, x1, crossed)>>

SwapCrossoverOverwrite(x1, x2, swap) == IF swap THEN <<x2, x2>> ELSE <<x1, x2>>

\* swap: rand <= self.probability
SwapCrossover(x1, x2, swap) == IF swap THEN <<x2, x1>> ELSE <<x1, x2>>

DoNothingCrossover(x1, x2) == <<x1, x2>>

GeneCrossover(gs, x1, x2, draw) ==
    CASE gs = "sbx" -> SBXCrossover(x1, x2, draw)
      [] gs = "swap" -> SwapCrossover(x1, x2, draw)
      [] gs = "nothing" -> DoNothingCrossover(x1, x2)

\* the draws of one secondary crossover
GeneDraws(gs) == CASE gs = "sbx" -> FieldSets
                   [] gs = "swap" -> BOOLEAN
                   [] OTHER -> {FALSE}

RECURSIVE GeneCrossoverLoop(_, _, _, _, _)
\* for i in range(len(s1)): s1.iloc[i], s21.iloc[i] = gene_crossover.execute([p1, p2])
GeneCrossoverLoop(s1, s21, i, gs, draws) ==
    IF i > Len(s1) THEN <<s1, s21>>
    ELSE LET c == GeneCrossover(gs, s1[i].values, s21[i].values, draws[i])
         IN  GeneCrossoverLoop([s1 EXCEPT ![i].values = c[1]],
                               [s21 EXCEPT ![i].values = c[2]], i + 1, gs, draws)

\* the rows of s22 at the positions in T, in their order
Pick(s22, T) ==
    LET picked == SelectSeq(Eager([i \in 1..Len(s22) |-> [at |-> i, row |-> s22[i]]]),
                            LAMBDA e : e.at \in T)
    IN  Eager([i \in 1..Len(picked) |-> picked[i].row])

LengthVariationAnySplit(vs, s1, s21, s22, rnd) ==
    CASE vs = "variation1" ->
            LET s == s1 \o s21 \o s22
                random_split_point == rnd.split - 1
            IN  <<Iloc(s, SubSeq(rnd.idx2, 1, random_split_point)),
                  Iloc(s, SubSeq(rnd.idx2, random_split_point + 1, Len(s)))>>
      [] vs = "variation2" ->
            <<s1 \o Pick(s22, rnd.to_s1), s21 \o Pick(s22, (1..Len(s22)) \ rnd.to_s1)>>
      [] vs = "fixed" -> <<s1, s21 \o s22>>

LengthVariation(vs, s1, s21, s22, rnd) ==
    CASE vs = "variation1" ->
            LET s == s1 \o s21 \o s22
                random_split_point == rnd.split
            IN  <<Iloc(s, SubSeq(rnd.idx2, 1, random_split_point)),
                  Iloc(s, SubSeq(rnd.idx2, random_split_point + 1, Len(s)))>>
      [] vs = "variation2" ->
            <<s1 \o Pick(s22, rnd.to_s1), s21 \o Pick(s22, (1..Len(s22)) \ rnd.to_s1)>>
      [] vs = "fixed" -> <<s1, s21 \o s22>>

\* what execute draws for parents of lengths k1 <= k2: the gate, the shuffle
\* of the longer parent, one draw per secondary crossover, and the draws of
\* the length-variation strategy
CrossoverDraws(vs, gs, k1, k2) ==
    {[pass |-> FALSE, idx |-> <<>>, genes |-> <<>>, idx2 |-> <<>>, split |-> 1, to_s1 |-> {}]}
    \cup
    IF gs \notin GeneStrategies \/ vs \notin VariationStrategies
    THEN {[pass |-> TRUE, idx |-> <<>>, genes |-> <<>>, idx2 |-> <<>>, split |-> 1, to_s1 |-> {}]}
    ELSE {[pass |-> TRUE, idx |-> idx, genes |-> genes, idx2 |-> idx2, split |-> split,
           to_s1 |-> to_s1]
          : idx \in Perms(k2),
            genes \in [1..k1 -> GeneDraws(gs)],
            idx2 \in IF vs = "variation1" THEN Perms(k1 + k2) ELSE {<<>>},
            split \in IF vs = "variation1" THEN 1..(k1 + k2 - 1) ELSE {1},
            to_s1 \in IF vs = "variation2" THEN SUBSET (1..(k2 - k1)) ELSE {{}}}

\* VariableLengthCrossover.execute with constructor strategies 'TBD', 'TBD'
VariableLengthCrossover(parents, vs, gs, rnd) ==
    IF ~rnd.pass THEN [ret |-> parents, branch |-> "gate", err |-> ""]
    ELSE IF gs \notin GeneStrategies \/ vs \notin VariationStrategies
    THEN [ret |-> <<>>, branch |-> "raise", err |-> "AttributeError"]
    ELSE LET first == IF parents[1].k < parents[2].k THEN 1 ELSE 2
             o1 == parents[first]
             o2 == parents[3 - first]
             c == GeneCrossoverLoop(o1.variables,
                                    Iloc(o2.variables, SubSeq(rnd.idx, 1, o1.k)), 1, gs, rnd.genes)
             r == LengthVariation(vs, c[1], c[2],
                                  Iloc(o2.variables, SubSeq(rnd.idx, o1.k + 1, o2.k)), rnd)
         IN  [ret |-> <<update_info([o1 EXCEPT !.variables = r[1]]),
                        update_info([o2 EXCEPT !.variables = r[2]])>>,
              branch |-> "done", err |-> ""]

Tag(s, strategy) == [s EXCEPT !.attributes = [strategy |-> strategy, strategy_flag |-> 1]]

(***************************************************************************)
(* mutation.py                                                             *)
(***************************************************************************)
\* PolynomialMutation.execute: every field that passes the gate gets a value
\* of its interval [low, high] (the boundary repair clips to it)
PolynomialMutation(y, mutated, drawn) ==
    [i \in 1..para_n |-> IF i \in mutated THEN drawn[i] ELSE y[i]]

\* the outcomes of random.randint(0, len - 1)
Points(len) == 0..(len - 1)

add(solution, rnd) ==
    [solution EXCEPT !.variables =
        Append(solution.variables, [index |-> Len(solution.variables), values |-> rnd.row])]

deleteAlways(solution, rnd) ==
    [solution EXCEPT !.variables =
        SelectSeq(solution.variables, LAMBDA e : e.index # rnd.point)]

delete(solution, rnd) ==
    IF Len(solution.variables) = 1 THEN solution
    ELSE [solution EXCEPT !.variables =
             SelectSeq(solution.variables, LAMBDA e : e.index # rnd.point)]

modify(solution, rnd) ==
    [solution EXCEPT !.variables[rnd.point + 1].values =
        PolynomialMutation(solution.variables[rnd.point + 1].values, rnd.mutated, rnd.row)]

\* what execute draws: the gate, the strategy (rand < 1/3, < 2/3, else), the
\* row affected and the values of the new or mutated fields
MutationDraws(len) ==
    {[pass |-> FALSE, branch |-> "gate", point |-> 0, mutated |-> {}, row |-> <<>>]}
    \cup {[pass |-> TRUE, branch |-> "add", point |-> 0, mutated |-> {}, row |-> row]
          : row \in RowDraws}
    \cup {[pass |-> TRUE, branch |-> "delete", point |-> point, mutated |-> {}, row |-> <<>>]
          : point \in Points(len)}
    \cup {[pass |-> TRUE, branch |-> "modify", point |-> point, mutated |-> mutated, row |-> row]
          : point \in Points(len), mutated \in FieldSets, row \in RowDraws}

\* VariableLengthMutation.execute
VariableLengthMutation(parent, rnd) ==
    IF ~rnd.pass THEN parent
    ELSE update_info(CASE rnd.branch = "add" -> add(parent, rnd)
                       [] rnd.branch = "delete" -> delete(parent, rnd)
                       [] rnd.branch = "modify" -> modify(parent, rnd))

(***************************************************************************)
(* problem.py : MOEEProblem.fix_solution                                   *)
(***************************************************************************)
RECURSIVE Subsets(_, _)
\* the subsets of S with m elements
Subsets(S, m) == IF m = 0 THEN {{}}
                 ELSE UNION {{T \cup {x} : T \in Subsets({y \in S : y > x}, m - 1)} : x \in S}

Reverse(s) == Eager([i \in 1..Len(s) |-> s[Len(s) + 1 - i]])

\* DataFrame.sample(n): n rows without replacement (ValueError when the frame
\* has fewer).  The rows come back in a random order; the model draws the
\* order from {as they were, reversed}.
Sample(frame, rnd) ==
    LET kept == SelectSeq(Eager([i \in 1..Len(frame) |-> i]), LAMBDA i : i \notin rnd.dropped)
    IN  Iloc(frame, IF rnd.reversed THEN Reverse(kept) ELSE kept)

SampleDraws(len, m) ==
    IF len < m THEN {[dropped |-> {}, reversed |-> FALSE]}
    ELSE {[dropped |-> dropped, reversed |-> reversed]
          : dropped \in Subsets(1..len, len - m), reversed \in BOOLEAN}

Weights(values) == Eager([j \in 1..(w_last - w_first + 1) |-> values[w_first + j - 1]])

\* poly_degree rounded, w1..w5 divided by their sum, W divided by its sum over the rows
Normalise(solution) ==
    LET frame == solution.variables
        Wsum == PdSum(Eager([i \in 1..Len(frame) |-> frame[i].values[W]]))
        fixed(values) ==
            [j \in 1..para_n |->
                IF j = poly_degree THEN Round(values[j])
                ELSE IF j \in w_first..w_last THEN RatDiv(values[j], NpSum(Weights(values)))
                ELSE IF j = W THEN RatDiv(values[j], Wsum)
                ELSE values[j]]
    IN  [solution EXCEPT !.variables =
            Eager([i \in 1..Len(frame) |-> [index |-> frame[i].index,
                                            values |-> fixed(frame[i].values)]])]

fix_solution(solution, max_length, fixed_len, rnd) ==
    IF fixed_len = -1 /\ solution.k > max_length
    THEN IF Len(solution.variables) < sample_n
         THEN [ret |-> solution, branch |-> "raise", err |-> "ValueError"]
         ELSE [ret |-> Normalise(update_info([solution EXCEPT
                                                 !.variables = Sample(solution.variables, rnd)])),
               branch |-> "sampled", err |-> ""]
    ELSE [ret |-> Normalise(solution), branch |-> "kept", err |-> ""]

(***************************************************************************)
(* Genome area: state after construction and the calls                     *)
(***************************************************************************)
LongLengths == (sample_n - 1)..(sample_n + MaxOver)

\* MOEESolution.__init__: k rows of uniform draws (a long genome repeats one draw)
ShortSolutions == {MOEESolution(rows) : rows \in SeqsUpTo(RowDraws, 1, MaxRows)}

LongSolutions == {MOEESolution([i \in 1..len |-> row]) : len \in LongLengths, row \in RowDraws}

InitOperators ==
    /\ fixed_length \in {-1, MaxRows}
    /\ solution_length_maximum \in {MaxRows - 1, sample_n}
    /\ genomes \in [1..2 -> ShortSolutions]
                  \cup {<<s, l>> : s \in {MOEESolution(<<row>>) : row \in RowDraws},
                                   l \in LongSolutions}
    /\ fixed_length > 0 => \A i \in 1..2 : genomes[i].k = fixed_length
    /\ lastcall = NoCall
    /\ repaired = 0
    /\ ParetoIdle
    /\ DeciderIdle
    /\ SelectionIdle
    /\ SlackIdle
    /\ RunIdle
    /\ LogIdle
    /\ CtorIdle
    /\ ReproIdle
    /\ WheelIdle
    /\ ArchiveIdle

Called(op, branch, vs, gs, target, err) ==
    [op |-> op, branch |-> branch, vs |-> vs, gs |-> gs, target |-> target,
 err |-> err]

Shorter == IF genomes[1].k < genomes[2].k THEN genomes[1].k ELSE genomes[2].k
Longer == IF genomes[1].k < genomes[2].k THEN genomes[2].k ELSE genomes[1].k

\* crossover_operator.execute(parents, choose_variation_strategy, choose_gene_crossover);
\* the two genomes returned are the ones in flight from here on
CrossoverCall(vs, gs) ==
    /\ lastcall.op = "none"
    /\ repaired = 0
    /\ genomes[1].k + genomes[2].k <= MaxPool
    /\ \E rnd \in CrossoverDraws(vs, gs, Shorter, Longer) :
       \E r \in {VariableLengthCrossover(genomes, vs, gs, rnd)} :
          /\ genomes' = IF r.err = "" THEN r.ret ELSE genomes
          /\ lastcall' = Called("crossover", r.branch, vs, gs, 0, r.err)
    /\ UNCHANGED <<solution_length_maximum, fixed_length, repaired, otherThanGenomeVars>>

\* a plausible slip: "or" for "and", each 'TBD' is filled in from the call
UsedStrategiesPerField(self_vs, self_gs, vs, gs) ==
    <<IF self_vs = "TBD" THEN vs ELSE self_vs, IF self_gs = "TBD" THEN gs ELSE self_gs>>

\* the two strategies execute() works with (crossover.py, "determine the
\* choice of the two strategies"): <<variation_strategy, gene_crossover_strategy>>
UsedStrategies(self_vs, self_gs, vs, gs) ==
    IF self_vs = "TBD" /\ self_gs = "TBD" THEN <<vs, gs>> ELSE <<self_vs, self_gs>>

\* an operator constructed with any pair of strategies, 'TBD' included, and
\* two parents of few rows
InitExecute ==
    /\ self_variation_strategy \in VariationStrategies \cup {"TBD"}
    /\ self_gene_crossover \in GeneStrategies \cup {"TBD"}
    /\ passed_strategies = <<>>
    /\ fixed_length = -1
    /\ solution_length_maximum = sample_n
    /\ genomes \in [1..2 -> {s \in ShortSolutions : s.k <= MaxExecuteRows}]
    /\ lastcall = NoCall
    /\ repaired = 0
    /\ ParetoIdle
    /\ DeciderIdle
    /\ SelectionIdle
    /\ SlackIdle
    /\ RunIdle
    /\ LogIdle
    /\ ReproIdle
    /\ WheelIdle
    /\ ArchiveIdle

\* crossover_operator.execute(parents, vs, gs) on the operator as constructed
ExecuteCall(vs, gs) ==
    /\ lastcall.op = "none"
    /\ \E used \in {UsedStrategies(self_variation_strategy, self_gene_crossover, vs, gs)} :
       \E rnd \in CrossoverDraws(used[1], used[2], Shorter, Longer) :
       \E r \in {VariableLengthCrossover(genomes, used[1], used[2], rnd)} :
          /\ genomes' = IF r.err = "" THEN r.ret ELSE genomes
          /\ lastcall' = Called("execute", r.branch, used[1], used[2], 0, r.err)
    /\ passed_strategies' = <<vs, gs>>
    /\ UNCHANGED <<self_variation_strategy, self_gene_crossover, solution_length_maximum,
                   fixed_length, repaired, otherThanExecuteVars>>

\* one pair of __OutsideClusterCrossover: execute, tag the offspring, and
\* replace the two parents in place
OutsideClusterCrossover ==
    /\ lastcall.op = "none"
    /\ repaired = 0
    /\ genomes[1].k + genomes[2].k <= MaxPool
    /\ \E rnd \in CrossoverDraws("variation1", "nothing", Shorter, Longer) :
       \E r \in {VariableLengthCrossover(genomes, "variation1", "nothing", rnd)} :
          /\ genomes' = [i \in 1..2 |-> replace_by(genomes[i], Tag(r.ret[i], "outside"))]
          /\ lastcall' = Called("outside", r.branch, "variation1", "nothing", 0, "")
    /\ UNCHANGED <<solution_length_maximum, fixed_length, repaired, otherThanGenomeVars>>

\* mutation_operator.execute(genomes[target])
MutationCall(target) ==
    /\ lastcall.op = "none"
    /\ repaired = 0
    /\ genomes[target].k <= MaxRows
    /\ \E rnd \in MutationDraws(Len(genomes[target].variables)) :
       \E child \in {VariableLengthMutation(genomes[target], rnd)} :
          /\ Len(child.variables) <= MaxRows
          /\ genomes' = [genomes EXCEPT ![target] = child]
          /\ lastcall' = Called("mutation", rnd.branch, "", "", target, "")
    /\ UNCHANGED <<solution_length_maximum, fixed_length, repaired, otherThanGenomeVars>>

\* problem.fix_solution(genomes[target])
FixSolutionCall(target) ==
    /\ lastcall.op = "none"
    /\ repaired < MaxRepaired
    /\ repaired' = repaired + 1
    /\ \E rnd \in SampleDraws(Len(genomes[target].variables), sample_n) :
       \E r \in {fix_solution(genomes[target], solution_length_maximum, fixed_length, rnd)} :
          /\ genomes' = [genomes EXCEPT ![target] = r.ret]
          /\ lastcall' = Called("fix_solution", r.branch, "", "", target, r.err)
    /\ UNCHANGED <<solution_length_maximum, fixed_length, otherThanGenomeVars>>

\* the loop of reproduction goes on to its next call
Continue ==
    /\ lastcall.op # "none"
    /\ lastcall' = NoCall
    /\ UNCHANGED <<genomes, solution_length_maximum, fixed_length, repaired, otherThanGenomeVars>>

(***************************************************************************)
(* strategy.py : CrossoverStrategyDecider (2 strategies) and               *)
(* DecideVariationStrategyBySelfAdaptive (3 strategies).  The two          *)
(* update_memory bodies differ in the strategy names only.  Ratios and     *)
(* probabilities are exact rationals, NaN where the source divides 0 by 0. *)
(***************************************************************************)
Deciders == {"CrossoverStrategyDecider", "DecideVariationStrategyBySelfAdaptive"}

\* the keys of n1 and n2, in dict order
StrategyKeys(d) == IF d = "CrossoverStrategyDecider"
                   THEN <<"inside", "outside">>
                   ELSE <<"variation1", "variation2", "fixed">>

\* __init__: every strategy starts at 1/len
InitialP(d) == LET n == Len(StrategyKeys(d)) IN [i \in 1..n |-> Rat(1, n)]

\* for s in pop: if s.attributes['strategy_flag'] == 1: n[s.attributes['strategy']] += 1
CountStrategies(keys, population) ==
    [i \in 1..Len(keys) |->
        Cardinality({s \in 1..Len(population) :
                        /\ population[s].strategy_flag = 1
                        /\ population[s].strategy = keys[i]})]

\* np.sum(memory, axis=0)
ColumnSums(memory, n) ==
    [i \in 1..n |-> SumSeq([g \in 1..Len(memory) |-> memory[g][i]])]

\* S with its NaN entries set to 1e-2
FloorNaN(S) == [i \in 1..Len(S) |-> IF S[i] = NaN THEN Rat(1, 100) ELSE S[i]]

\* S = sum_success / (sum_success + sum_fail); NaN -> 1e-2; P = S / sum(S)
Probabilities(sum_success, sum_fail) ==
    LET n == Len(sum_success)
        S == FloorNaN([i \in 1..n |->
                          Rat(sum_success[i], sum_success[i] + sum_fail[i])])
        total == NpSum(S)
    IN  [i \in 1..n |-> RatDiv(S[i], total)]

\* self is [LP, success_memory, fail_memory, probability]; the result is self after the call
\* a plausible slip: the window counts as full one generation early
update_memoryOneEarly(self, keys, pop1, pop2) ==
    LET n == Len(keys)
        n1 == CountStrategies(keys, pop1)
        counted == CountStrategies(keys, pop2)
        n2 == [i \in 1..n |-> IF counted[i] > n1[i] THEN n1[i] ELSE counted[i]]
        ns == n2
        nf == [i \in 1..n |-> n1[i] - n2[i]]
    IN  IF Len(self.success_memory) < self.LP - 1
        THEN [self EXCEPT !.success_memory = Append(@, ns),
                          !.fail_memory = Append(@, nf)]
        ELSE LET success == Append(IF self.success_memory = <<>> THEN <<>>
                                   ELSE Tail(self.success_memory), ns)
                 fail == Append(IF self.fail_memory = <<>> THEN <<>>
                                ELSE Tail(self.fail_memory), nf)
             IN  [self EXCEPT !.success_memory = success,
                              !.fail_memory = fail,
                              !.probability = Probabilities(ColumnSums(success, n),
                                                  ColumnSums(fail, n))]

\* a plausible slip: the success count is not capped at the strategy's total
update_memoryUncapped(self, keys, pop1, pop2) ==
    LET n == Len(keys)
        n1 == CountStrategies(keys, pop1)
        ns == CountStrategies(keys, pop2)
        nf == [i \in 1..n |-> n1[i] - ns[i]]
    IN  IF Len(self.success_memory) < self.LP
        THEN [self EXCEPT !.success_memory = Append(@, ns),
                          !.fail_memory = Append(@, nf)]
        ELSE [self EXCEPT !.success_memory = Append(Tail(self.success_memory), ns),
                          !.fail_memory = Append(Tail(self.fail_memory), nf)]

update_memory(self, keys, pop1, pop2) ==
    LET n == Len(keys)
        n1 == CountStrategies(keys, pop1)
        counted == CountStrategies(keys, pop2)
        n2 == [i \in 1..n |-> IF counted[i] > n1[i] THEN n1[i] ELSE counted[i]]
        ns == n2
        nf == [i \in 1..n |-> n1[i] - n2[i]]
    IN  IF Len(self.success_memory) < self.LP
        THEN [self EXCEPT !.success_memory = Append(@, ns),
                          !.fail_memory = Append(@, nf)]
        ELSE LET success == Append(Tail(self.success_memory), ns)
                 fail == Append(Tail(self.fail_memory), nf)
             IN  [self EXCEPT !.success_memory = success,
                              !.fail_memory = fail,
                              !.probability = Probabilities(ColumnSums(success, n),
                                                  ColumnSums(fail, n))]

\* attributes as init_progress and replacement leave them, or as a crossover
\* of this decider's strategies tags them
TaggedAttributes(d) ==
    {NoAttributes} \cup
    {[strategy |-> StrategyKeys(d)[i], strategy_flag |-> 1] : i \in 1..Len(StrategyKeys(d))}

TaggedPopulations(d) == SeqsUpTo(TaggedAttributes(d), 0, MaxTagged)

InitDecider ==
    /\ decider \in Deciders
    /\ LP \in 1..MaxLP
    /\ success_memory = <<>>
    /\ fail_memory = <<>>
    /\ probability = InitialP(decider)
    /\ memory_call = "none"
    /\ ParetoIdle
    /\ GenomeIdle
    /\ SelectionIdle
    /\ SlackIdle
    /\ RunIdle
    /\ LogIdle
    /\ CtorIdle
    /\ ReproIdle
    /\ WheelIdle
    /\ ArchiveIdle

UpdateMemory ==
    /\ \E pop1, pop2 \in TaggedPopulations(decider) :
          \E self \in {update_memory([LP |-> LP, success_memory |-> success_memory,
                                      fail_memory |-> fail_memory,
                                      probability |-> probability],
                                     StrategyKeys(decider), pop1, pop2)} :
             /\ success_memory' = self.success_memory
             /\ fail_memory' = self.fail_memory
             /\ probability' = self.probability
    /\ memory_call' = IF Len(success_memory) < LP THEN "appended" ELSE "updated"
    /\ UNCHANGED <<decider, LP, otherThanDeciderVars>>

\* the populations handed to an observed call
LoggedPopulations(d) == SeqsUpTo(TaggedAttributes(d), 0, MaxLogged)

\* a decider whose update_memory calls are observed from its construction on
InitLoggedDecider ==
    /\ decider \in Deciders
    /\ LP \in 1..MaxLP
    /\ success_memory = <<>>
    /\ fail_memory = <<>>
    /\ probability = InitialP(decider)
    /\ memory_call = "none"
    /\ reported = <<>>
    /\ ParetoIdle
    /\ GenomeIdle
    /\ SelectionIdle
    /\ SlackIdle
    /\ RunIdle
    /\ CtorIdle
    /\ ReproIdle
    /\ WheelIdle
    /\ ArchiveIdle

\* update_memory(pop1, pop2), observed
LoggedUpdateMemory ==
    /\ Len(reported) < MaxCalls
    /\ \E pop1, pop2 \in LoggedPopulations(decider) :
          \E self \in {update_memory([LP |-> LP, success_memory |-> success_memory,
                                      fail_memory |-> fail_memory,
                                      probability |-> probability],
                                     StrategyKeys(decider), pop1, pop2)} :
             /\ success_memory' = self.success_memory
             /\ fail_memory' = self.fail_memory
             /\ probability' = self.probability
             /\ reported' = Append(reported,
                                 [total |-> CountStrategies(StrategyKeys(decider), pop1),
                                  survived |-> CountStrategies(StrategyKeys(decider), pop2)])
    /\ memory_call' = IF Len(success_memory) < LP THEN "appended" ELSE "updated"
    /\ UNCHANGED <<decider, LP, otherThanLoggedDeciderVars>>

(***************************************************************************)
(* moeec_nsgaii.py : cluster-aware mating selection.  A genome is          *)
(* [cluster_label, objectives]; the pool holds positions in the            *)
(* population, so that the same genome selected twice is the same entry.   *)
(* A selection operator is modelled by the set of genomes its random       *)
(* draws can return.                                                       *)
(***************************************************************************)
ClusterLabels == 0..2
ObjectiveNames == <<"RMSE", "Diversity", "Complexity">>

\* the keys of sub_populations, in insertion order
ClusterKeys(population) ==
    LET firsts == {i \in 1..Len(population) :
                      \A j \in 1..(i - 1) :
                         population[j].cluster_label # population[i].cluster_label}
        order == SortedSeqOf(firsts)
    IN  [k \in 1..Len(order) |-> population[order[k]].cluster_label]

\* the members of the next cluster filed under the key
SubPopulationOtherCluster(population, key) ==
    SortedSeqOf({i \in 1..Len(population) :
                    population[i].cluster_label = (key + 1) % 3})

\* sub_populations[key]: the members of the cluster, in population order
SubPopulation(population, key) ==
    SortedSeqOf({i \in 1..Len(population) : population[i].cluster_label = key})

\* the key of the outer loop at each append to mating_population
SlotKeys(population) ==
    LET keys == ClusterKeys(population)
    IN  Flatten([k \in 1..Len(keys) |->
                    [s \in 1..Len(SubPopulation(population, keys[k])) |-> keys[k]]])

\* np.argsort of a short vector: ascending, equal values in index order
ArgSort(vector) ==
    Eager([k \in 1..Len(vector) |->
              CHOOSE i \in 1..Len(vector) :
                 Cardinality({j \in 1..Len(vector) :
                                 \/ vector[j] < vector[i]
                                 \/ vector[j] = vector[i] /\ j < i}) = k - 1])

get_rank(vector) ==
    LET sorted_index == ArgSort(vector)
    IN  Eager([index \in 1..Len(vector) |->
                  (CHOOSE i \in 1..Len(vector) : sorted_index[i] = index) - 1])

\* the rank sums of a cluster per objective; every term of the source is
\* divided by len(population), which the comparison of sums does not need
ClusterRankSums(population, label) ==
    Eager([o \in 1..number_of_objectives |->
              LET ranks == get_rank(Eager([i \in 1..Len(population) |->
                                              population[i].objectives[o]]))
              IN  SumSeq(Eager([i \in 1..Len(population) |->
                                   IF population[i].cluster_label = label
                                   THEN ranks[i] ELSE 0]))])

\* cluster_mean_ranks[label] after the loop over the population: every
\* member's rank was added after division by len(population)
cluster_mean_ranks(population, label) ==
    Eager([o \in 1..number_of_objectives |->
              Rat(ClusterRankSums(population, label)[o], Len(population))])

\* a slip: the tie of all three objectives and the tie of diversity and
\* complexity go to diversity
AdvantageOfDiversityInTie(row) ==
    LET order == ArgSort(row)
        df == Eager([k \in 1..Len(row) |-> row[order[k]]])
    IN  IF df[1] = df[2]
        THEN IF df[2] = df[3] THEN "Diversity"
             ELSE IF ObjectiveNames[order[3]] = "RMSE" THEN "Diversity" ELSE "RMSE"
        ELSE ObjectiveNames[order[1]]

\* the choice among the sorted ranks of one cluster
AdvantageOf(row) ==
    LET order == ArgSort(row)
        df == Eager([k \in 1..Len(row) |-> row[order[k]]])
    IN  IF df[1] = df[2]
        THEN IF df[2] = df[3] THEN "RMSE"
             ELSE IF ObjectiveNames[order[3]] = "RMSE" THEN "Complexity" ELSE "RMSE"
        ELSE ObjectiveNames[order[1]]

\* the result, indexed by cluster label + 1
get_advantage_objs(population) ==
    LET temp == Eager([c \in 1..3 |-> ClusterRankSums(population, c - 1)])
        rank_obj_matrix == Eager([o \in 1..number_of_objectives |->
                                     get_rank(Eager([c \in 1..3 |-> temp[c][o]]))])
    IN  Eager([c \in 1..3 |->
                  AdvantageOf(Eager([o \in 1..number_of_objectives |->
                                        rank_obj_matrix[o][c]]))])

\* (objs.max() - objs.min()) * 0.005 per objective
Thresholds(population) ==
    Eager([o \in 1..number_of_objectives |->
              LET values == {population[i].objectives[o] : i \in 1..Len(population)}
                  max == CHOOSE v \in values : \A w \in values : w <= v
                  min == CHOOSE v \in values : \A w \in values : v <= w
              IN  Rat(max - min, 200)])

\* a plausible slip: the second level always uses the RMSE threshold
SlackCompareBetaOfRMSE(objectives1, objectives2, prefer_obj, thresholds) ==
    LET order == CASE prefer_obj = "RMSE" -> <<1, 3, 2>>
                   [] prefer_obj = "Diversity" -> <<2, 1, 3>>
                   [] prefer_obj = "Complexity" -> <<3, 1, 2>>
        alpha == thresholds[order[1]]
        beta == thresholds[1]
    IN  IF RatLeq(RatInt(Abs(objectives1[order[1]] - objectives2[order[1]])), alpha)
        THEN IF RatLeq(RatInt(Abs(objectives1[order[2]] - objectives2[order[2]])), beta)
             THEN IF objectives1[order[3]] < objectives2[order[3]] THEN -1
                  ELSE IF objectives1[order[3]] > objectives2[order[3]] THEN 1 ELSE 0
             ELSE IF objectives1[order[2]] < objectives2[order[2]] THEN -1 ELSE 1
        ELSE IF objectives1[order[1]] < objectives2[order[1]] THEN -1 ELSE 1

\* SlackComparator.compare on two objective vectors
SlackCompare(objectives1, objectives2, prefer_obj, thresholds) ==
    LET order == CASE prefer_obj = "RMSE" -> <<1, 3, 2>>
                   [] prefer_obj = "Diversity" -> <<2, 1, 3>>
                   [] prefer_obj = "Complexity" -> <<3, 1, 2>>
        alpha == thresholds[order[1]]
        beta == IF prefer_obj = "RMSE" THEN thresholds[3] ELSE thresholds[1]
        obj_1a == objectives1[order[1]]
        obj_1b == objectives2[order[1]]
        obj_2a == objectives1[order[2]]
        obj_2b == objectives2[order[2]]
        obj_3a == objectives1[order[3]]
        obj_3b == objectives2[order[3]]
    IN  IF RatLeq(RatInt(Abs(obj_1a - obj_1b)), alpha)
        THEN IF RatLeq(RatInt(Abs(obj_2a - obj_2b)), beta)
             THEN IF obj_3a < obj_3b THEN -1
                  ELSE IF obj_3a > obj_3b THEN 1 ELSE 0
             ELSE IF obj_2a < obj_2b THEN -1 ELSE 1
        ELSE IF obj_1a < obj_1b THEN -1 ELSE 1

\* the better of the two drawn, either of them when neither is better
Winner(solution1, solution2, flag) ==
    IF flag = -1 THEN {solution1}
    ELSE IF flag = 1 THEN {solution2}
    ELSE {solution1, solution2}

\* the two positions of random.sample(range(0, len(front)), 2)
SamplePairs(front) == {ij \in (1..Len(front)) \X (1..Len(front)) : ij[1] # ij[2]}

\* BinaryTournamentSelection.execute(front): what it can return
BinaryTournamentSelection(population, front) ==
    IF Len(front) = 1 THEN {front[1]}
    ELSE UNION {Winner(front[ij[1]], front[ij[2]],
                       DominanceCompare(population[front[ij[1]]].objectives,
                                        population[front[ij[2]]].objectives))
                  : ij \in SamplePairs(front)}

\* SlackBinaryTournamentSelection.execute(front, prefer_obj): what it can return
SlackBinaryTournamentSelection(population, front, prefer_obj, thresholds) ==
    IF Len(front) = 1 THEN {front[1]}
    ELSE UNION {Winner(front[ij[1]], front[ij[2]],
                       SlackCompare(population[front[ij[1]]].objectives,
                                    population[front[ij[2]]].objectives,
                                    prefer_obj, thresholds))
                  : ij \in SamplePairs(front)}

RECURSIVE Pools(_, _)
\* the lists that the appends of the first k clusters can give; draws[k] is
\* the set of lists that the inner loop can append for the k-th key
Pools(draws, k) ==
    IF k = 0 THEN {<<>>}
    ELSE {before \o drawn : before \in Pools(draws, k - 1), drawn \in draws[k]}

\* MOEEC_NSGAII_v1.selection: the mating populations it can return
v1_selection(population) ==
    LET keys == ClusterKeys(population)
        draws == Eager([k \in 1..Len(keys) |->
                     LET sub_population == SubPopulation(population, keys[k])
                     IN  [1..Len(sub_population) ->
                            BinaryTournamentSelection(population, sub_population)]])
    IN  Pools(draws, Len(keys))

\* MOEEC_NSGAII_v3.selection: the mating populations it can return
v3_selection(population, thresholds) ==
    LET keys == ClusterKeys(population)
        advantage_objs_ == get_advantage_objs(population)
        draws == Eager([k \in 1..Len(keys) |->
                     LET sub_population == SubPopulation(population, keys[k])
                         advantage_obj == advantage_objs_[keys[k] + 1]
                     IN  [1..Len(sub_population) ->
                            SlackBinaryTournamentSelection(population, sub_population,
                                                           advantage_obj, thresholds)]])
    IN  Pools(draws, Len(keys))

SelectionOperators == {"Binary tournament selection", "Slack binary tournament selection"}

\* 'Slack' in self.selection_operator.get_name()
IsSlack(name) == name = "Slack binary tournament selection"

\* objective vectors that differ a little, or a lot, on RMSE
ObjectiveMenu == {<<0, 0, 1>>, <<1, 1, 0>>, <<200, 0, 0>>}

Genome(label, objs) == [cluster_label |-> label, objectives |-> objs]

Genomes == {Genome(label, objs) : label \in ClusterLabels, objs \in ObjectiveMenu}

\* three genomes per cluster label
ClusteredPopulation ==
    << Genome(0, <<0, 0, 1>>), Genome(1, <<1, 1, 0>>), Genome(2, <<200, 0, 0>>),
       Genome(0, <<1, 1, 0>>), Genome(1, <<200, 0, 0>>), Genome(2, <<0, 0, 1>>),
       Genome(0, <<200, 0, 0>>), Genome(1, <<0, 0, 1>>), Genome(2, <<1, 1, 0>>) >>

InitSelection ==
    /\ pop \in SeqsUpTo(Genomes, 1, MaxPopulation) \cup {ClusteredPopulation}
    /\ selection_operator \in SelectionOperators
    /\ threshold = <<>>
    /\ advantage_objs = <<>>
    /\ mating_population = <<>>
    /\ drawn_from = <<>>
    /\ selected = FALSE
    /\ ParetoIdle
    /\ GenomeIdle
    /\ DeciderIdle
    /\ SlackIdle
    /\ RunIdle
    /\ LogIdle
    /\ CtorIdle
    /\ ReproIdle
    /\ WheelIdle
    /\ ArchiveIdle

\* MOEEC_NSGAII_v5.selection: thresholds first, then v3.selection, for a
\* slack operator; v1.selection otherwise
Selection ==
    /\ ~selected
    /\ IF IsSlack(selection_operator)
       THEN \E thresholds \in {Thresholds(pop)} :
               /\ threshold' = thresholds
               /\ advantage_objs' = get_advantage_objs(pop)
               /\ \E pools \in {v3_selection(pop, thresholds)} :
                     mating_population' \in pools
       ELSE /\ \E pools \in {v1_selection(pop)} : mating_population' \in pools
            /\ UNCHANGED <<threshold, advantage_objs>>
    /\ drawn_from' = SlotKeys(pop)
    /\ selected' = TRUE
    /\ UNCHANGED <<pop, selection_operator, otherThanSelectionVars>>

(***************************************************************************)
(* Specifications                                                          *)
(***************************************************************************)
(***************************************************************************)
(* comparator.py : SlackComparator, and replacement.py :                   *)
(* ObjectiveBasedSlackBinaryTournamentReplacement.  The thresholds of the  *)
(* comparator are attributes that exist only after init_threshold or       *)
(* update_threshold has been called.                                       *)
(***************************************************************************)
PreferNames == {"RMSE", "Diversity", "Complexity"}

\* SlackComparator.compare(solution1, solution2, prefer_obj) with its errors
SlackComparator_compare(objectives1, objectives2, prefer, thresholds) ==
    IF prefer \notin PreferNames THEN [flag |-> 0, err |-> "AttributeError"]
    ELSE IF thresholds = <<>> THEN [flag |-> 0, err |-> "AttributeError"]
    ELSE [flag |-> SlackCompare(objectives1, objectives2, prefer, thresholds), err |-> ""]

RatMul(a, b) == IF a = NaN \/ b = NaN THEN NaN ELSE Rat(a[1] * b[1], a[2] * b[2])

\* join_population.sort(key=cmp_to_key(SolutionObjectiveComparator(0).compare))
SortByRMSE(join_population) ==
    StableSort(Eager([i \in 1..Len(join_population) |-> i]),
               [pr \in (1..Len(join_population)) \X (1..Len(join_population)) |->
                   join_population[pr[1]].objectives[1] < join_population[pr[2]].objectives[1]])

\* ObjectiveBasedSlackBinaryTournamentReplacement.replace: what it can
\* return, as positions in the joined list, or the error it raises
SlackReplace(join_population, n, ratio, thresholds) ==
    LET elite_num == Round(RatMul(ratio, RatInt(n)))[1]
        sorted == SortByRMSE(join_population)
        elite == SubSeq(sorted, 1, IF elite_num < Len(sorted) THEN elite_num ELSE Len(sorted))
        rest == SubSeq(sorted, elite_num + 1, Len(sorted))
        slots == n - Len(elite)
    IN  IF slots <= 0 THEN {[list |-> elite, err |-> ""]}
        ELSE IF rest = <<>> THEN {[list |-> elite, err |-> "Exception"]}
        ELSE IF Len(rest) >= 2 /\ thresholds = <<>>
        THEN {[list |-> elite, err |-> "AttributeError"]}
        ELSE {[list |-> elite \o tail, err |-> ""]
              : tail \in [1..slots ->
                             SlackBinaryTournamentSelection(join_population, rest,
                                                            "RMSE", thresholds)]}

SlackValues == 0..MaxSlackObj

SlackTriples == {[objectives |-> <<a, b, c>>] : a, b, c \in SlackValues}

\* genomes that differ in RMSE and Complexity only
ReplaceTriples == {t \in SlackTriples : t.objectives[2] = 0}

ThresholdMenu == [1..number_of_objectives -> {RatInt(0), RatInt(1)}]

EliteRatios == {RatInt(0), Rat(1, 2), RatInt(1)}

InitSlackCompare ==
    /\ candidates \in [1..2 -> SlackTriples]
    /\ parents_len = 0
    /\ elite_ratio = RatInt(0)
    /\ comparator_thresholds = <<>>
    /\ preferred = "None"
    /\ slack_result = <<>>
    /\ slack_called = "none"
    /\ ParetoIdle
    /\ GenomeIdle
    /\ DeciderIdle
    /\ SelectionIdle
    /\ RunIdle
    /\ LogIdle
    /\ CtorIdle
    /\ ReproIdle
    /\ WheelIdle
    /\ ArchiveIdle

InitSlackReplace ==
    /\ candidates \in SeqsUpTo(ReplaceTriples, 2, MaxJoin)
    /\ parents_len \in 1..Len(candidates)
    /\ elite_ratio \in EliteRatios
    /\ comparator_thresholds = <<>>
    /\ preferred = "None"
    /\ slack_result = <<>>
    /\ slack_called = "none"
    /\ ParetoIdle
    /\ GenomeIdle
    /\ DeciderIdle
    /\ SelectionIdle
    /\ RunIdle
    /\ LogIdle
    /\ CtorIdle
    /\ ReproIdle
    /\ WheelIdle
    /\ ArchiveIdle

\* comparator.init_threshold / update_threshold(threshold1, threshold2, threshold3)
InitThreshold(thresholds) ==
    /\ slack_called = "none"
    /\ comparator_thresholds' = thresholds
    /\ UNCHANGED <<candidates, parents_len, elite_ratio, preferred, slack_result,
                   slack_called, otherThanSlackVars>>

\* comparator.compare(candidates[1], candidates[2], prefer)
SlackCompareCall(prefer) ==
    /\ slack_called = "none"
    /\ \E r \in {SlackComparator_compare(candidates[1].objectives, candidates[2].objectives,
                                         prefer, comparator_thresholds)} :
          /\ slack_result' = r.flag
          /\ slack_called' = IF r.err = "" THEN "compare" ELSE r.err
    /\ preferred' = prefer
    /\ UNCHANGED <<candidates, parents_len, elite_ratio, comparator_thresholds,
                   otherThanSlackVars>>

\* replacement.replace(candidates[:parents_len], candidates[parents_len:])
SlackReplaceCall ==
    /\ slack_called = "none"
    /\ \E r \in SlackReplace(candidates, parents_len, elite_ratio, comparator_thresholds) :
          /\ slack_result' = r.list
          /\ slack_called' = IF r.err = "" THEN "replace" ELSE r.err
    /\ UNCHANGED <<candidates, parents_len, elite_ratio, comparator_thresholds,
                   preferred, otherThanSlackVars>>

(***************************************************************************)
(* moee_algorithm.py : run() and step() of the clustered driver, with the  *)
(* selection, reproduction and replacement of MOEEC_NSGAII_v5.  Genomes    *)
(* are objects: the lists of the driver hold references into heap, so      *)
(* that a genome changed in place changes in every list that holds it.     *)
(* A genome is reduced to its length k, its objectives and its attributes; *)
(* the rows are the subject of the genome area.                            *)
(***************************************************************************)
\* 'random' and 'adaptive' choose between the first two at every generation
CrossoverMethods == {"inside", "outside", "both"}

\* what an evaluation can give to the genomes of a list, position by
\* position (a longer list goes round the pattern again): three different
\* vectors (three clusters), two genomes with the same vector (two
\* clusters), or the same vector for all (one cluster); <<0, 0, 0>>
\* dominates the other vectors
EvaluationMenu ==
    {<< <<0, 0, 0>>, <<1, 1, 0>>, <<2, 0, 1>> >>,
     << <<1, 1, 0>>, <<1, 1, 0>>, <<0, 0, 0>> >>,
     << <<2, 0, 1>>, <<0, 0, 0>>, <<1, 1, 0>> >>,
     << <<1, 1, 0>>, <<1, 1, 0>>, <<1, 1, 0>> >>}

\* MOEESolution(): a genome of k rows, not evaluated, without attributes
NewGenome(k) ==
    [k |-> k, objectives |-> <<>>, cluster_label |-> -1,
     strategy |-> "unset", strategy_flag |-> -1]

\* the genomes a list of references stands for
Deref(h, list) == Eager([i \in 1..Len(list) |-> h[list[i]]])

\* copy.deepcopy(list): one new object per object referenced, the same new
\* object for the same old one; the new objects go to the end of the heap
Distinct(list) ==
    SelectSeq(Eager([i \in 1..Len(list) |-> IF \A j \in 1..(i - 1) : list[j] # list[i]
                                            THEN list[i] ELSE 0]),
              LAMBDA id : id # 0)

PositionOf(id, list) == CHOOSE i \in 1..Len(list) : list[i] = id

DeepCopy(h, list) ==
    LET olds == Distinct(list)
    IN  [heap |-> h \o Deref(h, olds),
         list |-> Eager([i \in 1..Len(list) |-> Len(h) + PositionOf(list[i], olds)])]

\* the heap and a list after everything the list does not reference is dropped
Collect(h, list) ==
    LET olds == Distinct(list)
    IN  [heap |-> Deref(h, olds),
         list |-> Eager([i \in 1..Len(list) |-> PositionOf(list[i], olds)])]

\* problem.evaluate(population): every genome of the list gets objectives;
\* a genome that is in the list twice is evaluated twice and keeps the last
Evaluations(h, list) ==
    {Eager([id \in 1..Len(h) |->
               IF id \in Range(list)
               THEN [h[id] EXCEPT !.objectives =
                        LET last == CHOOSE i \in 1..Len(list) :
                                        /\ list[i] = id
                                        /\ \A j \in (i + 1)..Len(list) : list[j] # id
                        IN  objs[((last - 1) % Len(objs)) + 1]]
               ELSE h[id]])
       : objs \in EvaluationMenu}

\* recorder.record_pop: objectives, cluster label and length, by value
Snapshot(h, list) ==
    Eager([i \in 1..Len(list) |-> [objectives |-> h[list[i]].objectives,
                                   cluster_label |-> h[list[i]].cluster_label,
                                   length |-> h[list[i]].k]])

\* KMeans(n_clusters=3).fit(objectives).labels_: genomes of equal objectives
\* share a label and genomes of different objectives do not (there are at
\* most three different vectors); labels are numbered in order of appearance
ClusterLabelsOf(population) ==
    LET firsts == Distinct(Eager([i \in 1..Len(population) |->
                      CHOOSE j \in 1..i : population[j].objectives = population[i].objectives]))
    IN  Eager([i \in 1..Len(population) |->
                  PositionOf(CHOOSE j \in 1..i : population[j].objectives
                                                   = population[i].objectives, firsts) - 1])

\* solution.attributes['strategy'] = strategy; solution.attributes['strategy_flag'] = 1
TagGenome(h, id, strategy) ==
    [h EXCEPT ![id].strategy = strategy, ![id].strategy_flag = 1]

\* sub_mating_populations: the references of the pool filed under each
\* cluster label, the keys in insertion order
SubMatingPopulations(h, list) ==
    LET population == Deref(h, list)
        keys == ClusterKeys(population)
    IN  Eager([c \in 1..Len(keys) |->
                  LET positions == SubPopulation(population, keys[c])
                  IN  Eager([s \in 1..Len(positions) |-> list[positions[s]]])])

\* execute() came back with the parent itself (crossover.py, below the gate):
\* the object is marked as handed back unless a crossover of this generation
\* made it
ReturnedBy(by, id) == IF by[id] = "no" THEN [by EXCEPT ![id] = "returned"] ELSE by

RECURSIVE InsidePairs(_, _, _)
\* the pairs (sub[i], sub[i+1]), (sub[i+2], sub[i+3]), ... of one cluster under
\* execute(parents, 'fixed', 'sbx').  w is [heap, by]: by[id] is the
\* crossover that produced the object in this generation.  Below the gate the
\* parents themselves come back and are tagged; otherwise two deep copies,
\* the shorter parent's first, keep their lengths and are tagged.
InsidePairs(w, sub, i) ==
    IF i + 1 > Len(sub) - (Len(sub) % 2) THEN {[heap |-> w.heap, by |-> w.by, list |-> <<>>]}
    ELSE LET h == w.heap
             p0 == sub[i]
             p1 == sub[i + 1]
             shorter == IF h[p0].k < h[p1].k THEN p0 ELSE p1
             longer == IF h[p0].k < h[p1].k THEN p1 ELSE p0
             returned == [heap |-> TagGenome(TagGenome(h, p0, "inside"), p1, "inside"),
                          by |-> ReturnedBy(ReturnedBy(w.by, p0), p1), pair |-> <<p0, p1>>]
             made == [heap |-> TagGenome(TagGenome(h \o <<h[shorter], h[longer]>>,
                                                   Len(h) + 1, "inside"),
                                         Len(h) + 2, "inside"),
                      by |-> w.by \o <<"inside", "inside">>,
                      pair |-> <<Len(h) + 1, Len(h) + 2>>]
         IN  UNION {{[heap |-> rest.heap, by |-> rest.by, list |-> o.pair \o rest.list]
                       : rest \in InsidePairs([heap |-> o.heap, by |-> o.by], sub, i + 2)}
                      : o \in {returned, made}}

RECURSIVE InsideClusterCrossoverWithoutRemainder(_, _, _)
\* a pass that forgets the genome left over by a cluster of odd size
InsideClusterCrossoverWithoutRemainder(w, subs, c) ==
    IF c > Len(subs) THEN {[heap |-> w.heap, by |-> w.by, subs |-> <<>>, err |-> ""]}
    ELSE UNION {{[heap |-> rest.heap, by |-> rest.by,
                  subs |-> <<o.list>> \o rest.subs, err |-> ""]
                   : rest \in InsideClusterCrossoverWithoutRemainder(
                                  [heap |-> o.heap, by |-> o.by], subs, c + 1)}
                  : o \in InsidePairs(w, subs[c], 1)}

RECURSIVE InsideClusterCrossover(_, _, _)
\* __InsideClusterCrossover over the clusters c, c+1, ...: each cluster gives
\* its odd remainder first, uncrossed, and then the offspring of its pairs
InsideClusterCrossover(w, subs, c) ==
    IF c > Len(subs) THEN {[heap |-> w.heap, by |-> w.by, subs |-> <<>>, err |-> ""]}
    ELSE LET sub == subs[c]
             n == Len(sub) % 2
             remainder == SubSeq(sub, Len(sub) - n + 1, Len(sub))
         IN  UNION {{[heap |-> rest.heap, by |-> rest.by,
                      subs |-> <<remainder \o o.list>> \o rest.subs, err |-> ""]
                       : rest \in InsideClusterCrossover([heap |-> o.heap, by |-> o.by],
                                                         subs, c + 1)}
                      : o \in InsidePairs(w, sub, 1)}

\* the pairs that the loops over [[1, 5], [2, 3], [4, 6]] form from the six halves
OutsidePairList(pops) ==
    LET pairsOf(key1, key2) ==
            LET m == IF Len(pops[key1]) < Len(pops[key2])
                     THEN Len(pops[key1]) ELSE Len(pops[key2])
            IN  Eager([i \in 1..m |-> <<pops[key1][i], pops[key2][i]>>])
    IN  pairsOf(1, 5) \o pairsOf(2, 3) \o pairsOf(4, 6)

RECURSIVE OutsidePairs(_, _, _)
\* execute(parents, 'variation1', 'nothing') on the pairs i, i+1, ... and the
\* two replace_by: below the gate the parents are tagged and stay as they
\* are; otherwise the first parent takes the first offspring (a copy of the
\* shorter parent, with its objectives and attributes, cut to any length
\* that leaves the other a row) and the second parent takes the second
OutsidePairs(w, pairs, i) ==
    IF i > Len(pairs) THEN {w}
    ELSE LET h == w.heap
             p0 == pairs[i][1]
             p1 == pairs[i][2]
             shorter == IF h[p0].k < h[p1].k THEN p0 ELSE p1
             longer == IF h[p0].k < h[p1].k THEN p1 ELSE p0
             total == h[p0].k + h[p1].k
             returned == [heap |-> TagGenome(TagGenome(h, p0, "outside"), p1, "outside"),
                          by |-> ReturnedBy(ReturnedBy(w.by, p0), p1)]
             made(split) ==
                 [heap |-> TagGenome(TagGenome(
                               [h EXCEPT ![p0] = [h[shorter] EXCEPT !.k = split],
                                         ![p1] = [h[longer] EXCEPT !.k = total - split]],
                               p0, "outside"), p1, "outside"),
                  by |-> [w.by EXCEPT ![p0] = "outside", ![p1] = "outside"]]
         IN  UNION {OutsidePairs(o, pairs, i + 1)
                      : o \in {returned} \cup {made(split) : split \in 1..(total - 1)}}

\* __OutsideClusterCrossover: every sub-population is shuffled and cut in two
\* halves; pops[5] does not exist when there are fewer than three clusters
OutsideCrossoverOfPool(w, subs) ==
    IF Len(subs) < 3 THEN {[heap |-> w.heap, by |-> w.by, subs |-> subs, err |-> "KeyError"]}
    ELSE UNION {
           LET shuffled == Eager([c \in 1..3 |->
                                     Eager([s \in 1..Len(subs[c]) |-> subs[c][perm[c][s]]])])
               pops == Eager([h \in 1..6 |->
                                 LET sub == shuffled[(h + 1) \div 2]
                                     num == Len(sub) \div 2
                                 IN  IF h % 2 = 1 THEN SubSeq(sub, 1, num)
                                     ELSE SubSeq(sub, num + 1, Len(sub))])
           IN  {[heap |-> o.heap, by |-> o.by, subs |-> shuffled, err |-> ""]
                  : o \in OutsidePairs(w, OutsidePairList(pops), 1)}
           : perm \in {p \in [1..3 -> UNION {Perms(Len(subs[c])) : c \in 1..3}] :
                          \A c \in 1..3 : Len(p[c]) = Len(subs[c])}}

\* the lengths a genome of k rows can have after mutation_operator.execute:
\* below the gate or modified k, added k + 1, deleted k - 1 (never below 1)
MutatedLengths(k) ==
    {k} \cup (IF k < MaxRunK THEN {k + 1} ELSE {}) \cup (IF k > 1 THEN {k - 1} ELSE {})

RECURSIVE MutateAndFix(_, _, _, _, _)
\* the loop of __VariableLengthMutation over the entries i, i+1, ... of the
\* pool: the genome is mutated in place and repaired; the repair raises on
\* a genome longer than the maximum and shorter than the sample it takes
MutateAndFix(h, list, i, max_length, fixed_len) ==
    IF i > Len(list) THEN {[heap |-> h, err |-> ""]}
    ELSE UNION {IF fixed_len = -1 /\ k > max_length /\ k < sample_n
                THEN {[heap |-> [h EXCEPT ![list[i]].k = k], err |-> "ValueError"]}
                ELSE MutateAndFix([h EXCEPT ![list[i]].k = k], list, i + 1,
                                  max_length, fixed_len)
                  : k \in MutatedLengths(h[list[i]].k)}

\* for each entry of the concatenation of the lists, the number of its list
KeysOf(subs) ==
    Flatten(Eager([c \in 1..Len(subs) |-> Eager([s \in 1..Len(subs[c]) |-> c])]))

\* the end of reproduction(): the lists of sub_offspring_populations are
\* concatenated in key order, every entry is mutated and repaired, and the
\* concatenation is returned
Offspring(crossover, max_length, fixed_len) ==
    UNION {IF o.err # ""
           THEN {[heap |-> o.heap, offspring |-> <<>>, by |-> <<>>, keys |-> <<>>,
                  err |-> o.err]}
           ELSE LET offspring == Flatten(o.subs)
                IN  {[heap |-> m.heap,
                      offspring |-> IF m.err = "" THEN offspring ELSE <<>>,
                      by |-> IF m.err = ""
                             THEN Eager([s \in 1..Len(offspring) |-> o.by[offspring[s]]])
                             ELSE <<>>,
                      keys |-> IF m.err = "" THEN KeysOf(o.subs) ELSE <<>>,
                      err |-> m.err]
                       : m \in MutateAndFix(o.heap, offspring, 1, max_length, fixed_len)}
             : o \in crossover}

\* MOEEC_NSGAII_v5.reproduction(mating_population): the heap it leaves, the
\* pool it returns and the error it raises
Reproduction(h, list, method, max_length, fixed_len) ==
    LET subs == SubMatingPopulations(h, list)
        w == [heap |-> h, by |-> Eager([id \in 1..Len(h) |-> "no"])]
        inside == InsideClusterCrossover(w, subs, 1)
        outside == OutsideCrossoverOfPool(w, subs)
        both == UNION {OutsideCrossoverOfPool([heap |-> o.heap, by |-> o.by], o.subs)
                         : o \in inside}
        crossover == CASE method = "both" -> both
                       [] method = "inside" -> inside
                       [] method = "outside" -> outside
                       [] method \in {"random", "adaptive"} -> inside \cup outside
                       [] OTHER -> {[heap |-> h, by |-> w.by, subs |-> <<>>,
                                     err |-> "AttributeError"]}
    IN  Offspring(crossover, max_length, fixed_len)

\* the lengths of the two offspring that execute() makes above the gate, the
\* copy of the shorter parent first: 'variation1' cuts all rows at a random
\* point, 'variation2' hands each surplus row of the longer parent to either
\* offspring, 'fixed' leaves the surplus with the longer one
OffspringLengths(vs, shorter_k, longer_k) ==
    CASE vs = "variation1" ->
             {<<split, shorter_k + longer_k - split>> : split \in 1..(shorter_k + longer_k - 1)}
      [] vs = "variation2" ->
             {<<shorter_k + given, longer_k - given>> : given \in 0..(longer_k - shorter_k)}
      [] OTHER -> {<<shorter_k, longer_k>>}

\* crossover_operator.execute(parents, variation_strategy, ...) as
\* MOEEC_NSGAII_v1 calls it: the parents themselves below the gate, two new
\* objects otherwise.  pass is the pass of reproduction that called.
ExecuteOnPair(w, p0, p1, vs, pass) ==
    LET h == w.heap
        shorter == IF h[p0].k < h[p1].k THEN p0 ELSE p1
        longer == IF h[p0].k < h[p1].k THEN p1 ELSE p0
    IN  {[heap |-> h, by |-> ReturnedBy(ReturnedBy(w.by, p0), p1), pair |-> <<p0, p1>>]}
        \cup {[heap |-> h \o <<[h[shorter] EXCEPT !.k = lens[1]],
                                [h[longer] EXCEPT !.k = lens[2]]>>,
                by |-> w.by \o <<pass, pass>>,
                pair |-> <<Len(h) + 1, Len(h) + 2>>]
                 : lens \in OffspringLengths(vs, h[shorter].k, h[longer].k)}

RECURSIVE IntraClusterPairs(_, _, _, _)
\* MOEEC_NSGAII_v1, step 1.1, the pairs (sub[i], sub[i+1]), (sub[i+2], sub[i+3]), ...
IntraClusterPairs(w, sub, i, vs) ==
    IF i + 1 > Len(sub) - (Len(sub) % 2) THEN {[heap |-> w.heap, by |-> w.by, list |-> <<>>]}
    ELSE UNION {{[heap |-> rest.heap, by |-> rest.by, list |-> o.pair \o rest.list]
                   : rest \in IntraClusterPairs([heap |-> o.heap, by |-> o.by], sub, i + 2, vs)}
                  : o \in ExecuteOnPair(w, sub[i], sub[i + 1], vs, "inside")}

RECURSIVE IntraClusterCrossover(_, _, _, _)
\* MOEEC_NSGAII_v1, step 1.1 over the keys c, c+1, ...: the odd remainder of
\* each cluster first, uncrossed, then the offspring of its pairs
IntraClusterCrossover(w, subs, c, vs) ==
    IF c > Len(subs) THEN {[heap |-> w.heap, by |-> w.by, subs |-> <<>>, err |-> ""]}
    ELSE LET sub == subs[c]
             n == Len(sub) % 2
             remainder == SubSeq(sub, Len(sub) - n + 1, Len(sub))
         IN  UNION {{[heap |-> rest.heap, by |-> rest.by,
                      subs |-> <<remainder \o o.list>> \o rest.subs, err |-> ""]
                       : rest \in IntraClusterCrossover([heap |-> o.heap, by |-> o.by],
                                                        subs, c + 1, vs)}
                      : o \in IntraClusterPairs(w, sub, 1, vs)}

\* combinations(sub_offspring_populations.keys(), 2) for at most three keys
KeyCombinations(n) ==
    CASE n = 3 -> << <<1, 2>>, <<1, 3>>, <<2, 3>> >>
      [] n = 2 -> << <<1, 2>> >>
      [] OTHER -> <<>>

RECURSIVE InterClusterPairs(_, _, _, _, _)
\* MOEEC_NSGAII_v1, step 1.2, for one combination (key1, key2): the entries
\* i, i+1, ... of the two lists are crossed and the offspring take their places
InterClusterPairs(w, key1, key2, i, vs) ==
    LET n1 == Len(w.subs[key1])
        n2 == Len(w.subs[key2])
    IN  IF i > (IF n1 < n2 THEN n1 ELSE n2) THEN {w}
        ELSE UNION {InterClusterPairs([heap |-> o.heap, by |-> o.by,
                                       subs |-> [w.subs EXCEPT ![key1][i] = o.pair[1],
                                                               ![key2][i] = o.pair[2]],
                                       err |-> ""],
                                      key1, key2, i + 1, vs)
                      : o \in ExecuteOnPair(w, w.subs[key1][i], w.subs[key2][i], vs,
                                            "outside")}

RECURSIVE InterClusterCrossover(_, _, _, _)
\* MOEEC_NSGAII_v1, step 1.2 over the combinations j, j+1, ...: both lists
\* are shuffled in place before their entries are paired
InterClusterCrossover(w, combinations, j, vs) ==
    IF j > Len(combinations) THEN {w}
    ELSE LET key1 == combinations[j][1]
             key2 == combinations[j][2]
             sub1 == w.subs[key1]
             sub2 == w.subs[key2]
         IN  UNION {UNION {InterClusterCrossover(o, combinations, j + 1, vs)
                             : o \in InterClusterPairs(
                                   [w EXCEPT !.subs =
                                       [w.subs EXCEPT
                                          ![key1] = Eager([s \in 1..Len(sub1) |-> sub1[perm1[s]]]),
                                          ![key2] = Eager([s \in 1..Len(sub2) |-> sub2[perm2[s]]])]],
                                   key1, key2, 1, vs)}
                      : perm1 \in Perms(Len(sub1)), perm2 \in Perms(Len(sub2))}

\* MOEEC_NSGAII_v1.reproduction(mating_population): the heap it leaves, the
\* pool it returns and the error it raises; DecideVariationStrategyByRandom
\* draws one variation strategy for the whole call
ReproductionV1(h, list, max_length, fixed_len) ==
    LET subs == SubMatingPopulations(h, list)
        w == [heap |-> h, by |-> Eager([id \in 1..Len(h) |-> "no"])]
    IN  UNION {Offspring(UNION {InterClusterCrossover(o, KeyCombinations(Len(o.subs)), 1, vs)
                                  : o \in IntraClusterCrossover(w, subs, 1, vs)},
                         max_length, fixed_len)
                 : vs \in VariationStrategies}

InitRun ==
    /\ pc = "start"
    /\ crossover_method \in CrossoverMethods \cup {"None"}
    /\ max_epoch \in {0, MaxEpoch}
    /\ epoch = -1
    /\ heap = <<>>
    /\ self_pop = <<>>
    /\ parents_population = <<>>
    /\ mating_pool = <<>>
    /\ offspring_population = <<>>
    /\ produced_by = <<>>
    /\ log_pop = <<>>
    /\ error = ""
    /\ decider = "CrossoverStrategyDecider"
    /\ LP = 1
    /\ success_memory = <<>>
    /\ fail_memory = <<>>
    /\ probability = InitialP(decider)
    /\ memory_call = "none"
    /\ solution_length_maximum \in {MaxRunK - 1, sample_n}
    /\ fixed_length = -1
    /\ genomes = <<>>
    /\ lastcall = NoCall
    /\ repaired = 0
    /\ ParetoIdle
    /\ SelectionIdle
    /\ SlackIdle
    /\ LogIdle
    /\ CtorIdle
    /\ ReproIdle
    /\ WheelIdle
    /\ ArchiveIdle

\* self.pop = self.create_initial_population(): every genome went through
\* fix_solution when it was created, so none is longer than the maximum
CreateInitialPopulation ==
    /\ pc = "start"
    /\ \E ks \in [1..RunPopulationSize ->
                    {k \in 1..MaxInitialK : k <= solution_length_maximum}] :
          heap' = Eager([i \in 1..RunPopulationSize |-> NewGenome(ks[i])])
    /\ self_pop' = Eager([i \in 1..RunPopulationSize |-> i])
    /\ pc' = "created"
    /\ UNCHANGED <<crossover_method, max_epoch, epoch, parents_population, mating_pool,
                   offspring_population, produced_by, log_pop, error,
                   deciderVars, otherThanRunVars>>

\* self.pop = self.evaluate_population(self.pop), before the loop
EvaluatePopulation ==
    /\ pc = "created"
    /\ heap' \in Evaluations(heap, self_pop)
    /\ pc' = "evaluated"
    /\ UNCHANGED <<crossover_method, max_epoch, epoch, self_pop, parents_population,
                   mating_pool, offspring_population, produced_by, log_pop, error,
                   deciderVars, otherThanRunVars>>

\* MOEEC_NSGAII_v5.init_progress
InitProgress ==
    /\ pc = "evaluated"
    /\ heap' = Eager([id \in 1..Len(heap) |->
                         IF id \in Range(self_pop)
                         THEN [heap[id] EXCEPT !.strategy = "None", !.strategy_flag = 0]
                         ELSE heap[id]])
    /\ pc' = "initialized"
    /\ UNCHANGED <<crossover_method, max_epoch, epoch, self_pop, parents_population,
                   mating_pool, offspring_population, produced_by, log_pop, error,
                   deciderVars, otherThanRunVars>>

\* recorder.record_pop(population=self.pop, epoch=0) before the loop and
\* recorder.record_pop(population=self.pop, epoch=self.epoch+1) after a step
RecordPop ==
    /\ pc \in {"initialized", "replaced"}
    /\ log_pop' = [e \in 0..(epoch + 1) |->
                      IF e = epoch + 1 THEN Snapshot(heap, self_pop) ELSE log_pop[e]]
    /\ pc' = "loop"
    /\ UNCHANGED <<crossover_method, max_epoch, epoch, heap, self_pop, parents_population,
                   mating_pool, offspring_population, produced_by, error,
                   deciderVars, otherThanRunVars>>

\* the loop takes its next epoch and step() starts: self.cluster(self.pop)
Cluster ==
    /\ pc = "loop"
    /\ epoch + 1 < max_epoch
    /\ epoch' = epoch + 1
    /\ \E labels \in {ClusterLabelsOf(Deref(heap, self_pop))} :
          heap' = Eager([id \in 1..Len(heap) |->
                            IF id \in Range(self_pop)
                            THEN [heap[id] EXCEPT !.cluster_label =
                                                      labels[PositionOf(id, self_pop)]]
                            ELSE heap[id]])
    /\ pc' = "clustered"
    /\ UNCHANGED <<crossover_method, max_epoch, self_pop, parents_population,
                   mating_pool, offspring_population, produced_by, log_pop, error,
                   deciderVars, otherThanRunVars>>

\* parents_population = copy.deepcopy(self.pop);
\* mating_population = self.selection(self.pop), with a BinaryTournamentSelection
SelectionOfStep ==
    /\ pc = "clustered"
    /\ \E copy \in {DeepCopy(heap, self_pop)} :
          /\ heap' = copy.heap
          /\ parents_population' = copy.list
    /\ \E pools \in {v1_selection(Deref(heap, self_pop))} :
       \E pool \in pools :
          mating_pool' = Eager([s \in 1..Len(pool) |-> self_pop[pool[s]]])
    /\ pc' = "selected"
    /\ UNCHANGED <<crossover_method, max_epoch, epoch, self_pop, offspring_population,
                   produced_by, log_pop, error, deciderVars, otherThanRunVars>>

\* offspring_population = self.reproduction(mating_population)
ReproductionOfStep ==
    /\ pc = "selected"
    /\ \E r \in Reproduction(heap, mating_pool, crossover_method,
                             solution_length_maximum, fixed_length) :
          /\ heap' = r.heap
          /\ offspring_population' = r.offspring
          /\ produced_by' = r.by
          /\ error' = r.err
          /\ pc' = IF r.err = "" THEN "reproduced" ELSE "aborted"
    /\ UNCHANGED <<crossover_method, max_epoch, epoch, self_pop, parents_population,
                   mating_pool, log_pop, deciderVars, otherThanRunVars>>

\* offspring_population = self.evaluate_population(offspring_population)
EvaluateOffspring ==
    /\ pc = "reproduced"
    /\ heap' \in Evaluations(heap, offspring_population)
    /\ pc' = "offspring_evaluated"
    /\ UNCHANGED <<crossover_method, max_epoch, epoch, self_pop, parents_population,
                   mating_pool, offspring_population, produced_by, log_pop, error,
                   deciderVars, otherThanRunVars>>

\* self.pop = self.replacement(parents_population, offspring_population) of
\* MOEEC_NSGAII_v5: the strategy of the copied parents is cleared, the
\* NSGA-II replacement picks the next population from the copies and the
\* pool, and the decider is updated.  The lists of step() go out of scope,
\* and with them every object that the next population does not hold.
ReplacementOfStep ==
    /\ pc = "offspring_evaluated"
    /\ \E cleared \in {Eager([id \in 1..Len(heap) |->
                                 IF id \in Range(parents_population)
                                 THEN [heap[id] EXCEPT !.strategy = "None",
                                                       !.strategy_flag = 0]
                                 ELSE heap[id]])} :
       \E join \in {parents_population \o offspring_population} :
       \E r \in {replace(Eager([i \in 1..Len(join) |-> heap[join[i]].objectives]),
                         Len(parents_population), "ONE_SHOT",
                         Eager([i \in 1..Len(join) |-> NoRank]))} :
       \E next_pop \in {Eager([i \in 1..Len(r.list) |-> join[r.list[i]]])} :
       \E self \in {update_memory([LP |-> LP, success_memory |-> success_memory,
                                   fail_memory |-> fail_memory,
                                   probability |-> probability],
                                  StrategyKeys(decider),
                                  Deref(cleared, offspring_population),
                                  Deref(cleared, next_pop))} :
       \E kept \in {Collect(cleared, next_pop)} :
          /\ heap' = kept.heap
          /\ self_pop' = kept.list
          /\ success_memory' = self.success_memory
          /\ fail_memory' = self.fail_memory
          /\ probability' = self.probability
          /\ memory_call' = IF Len(success_memory) < LP THEN "appended" ELSE "updated"
    /\ parents_population' = <<>>
    /\ mating_pool' = <<>>
    /\ offspring_population' = <<>>
    /\ produced_by' = <<>>
    /\ pc' = "replaced"
    /\ UNCHANGED <<crossover_method, max_epoch, epoch, log_pop, error, decider, LP,
                   otherThanRunVars>>

\* a loop that leaves one iteration short
FinishOneShort ==
    /\ pc = "loop"
    /\ epoch + 2 >= max_epoch
    /\ pc' = "done"
    /\ UNCHANGED <<crossover_method, max_epoch, epoch, heap, self_pop, parents_population,
                   mating_pool, offspring_population, produced_by, log_pop, error,
                   deciderVars, otherThanRunVars>>

\* the loop has run max_epoch times: self.runtime = time.time() - start
Finish ==
    /\ pc = "loop"
    /\ epoch + 1 >= max_epoch
    /\ pc' = "done"
    /\ UNCHANGED <<crossover_method, max_epoch, epoch, heap, self_pop, parents_population,
                   mating_pool, offspring_population, produced_by, log_pop, error,
                   deciderVars, otherThanRunVars>>

\* the reproduction methods that MOEEC_NSGAII_v5.reproduction dispatches on
ReproductionMethods == CrossoverMethods \cup {"random", "adaptive"}

\* an algorithm of either class after self.pop = self.create_initial_population()
\* in run(): every genome went through fix_solution when it was created
InitReproduction ==
    /\ pc = "created"
    /\ algorithm \in {"MOEEC_NSGAII_v1", "MOEEC_NSGAII_v5"}
    /\ crossover_method \in IF algorithm = "MOEEC_NSGAII_v5" THEN ReproductionMethods
                            ELSE {"None"}
    /\ max_epoch = 1
    /\ epoch = -1
    /\ solution_length_maximum \in {MaxRunK - 1, sample_n}
    /\ fixed_length = -1
    /\ \E ks \in [1..RunPopulationSize -> {k \in 1..MaxRunK : k <= solution_length_maximum}] :
          heap = Eager([i \in 1..RunPopulationSize |-> NewGenome(ks[i])])
    /\ self_pop = Eager([i \in 1..RunPopulationSize |-> i])
    /\ parents_population = <<>>
    /\ mating_pool = <<>>
    /\ offspring_population = <<>>
    /\ produced_by = <<>>
    /\ offspring_keys = <<>>
    /\ log_pop = <<>>
    /\ error = ""
    /\ decider = "CrossoverStrategyDecider"
    /\ LP = 1
    /\ success_memory = <<>>
    /\ fail_memory = <<>>
    /\ probability = InitialP(decider)
    /\ memory_call = "none"
    /\ genomes = <<>>
    /\ lastcall = NoCall
    /\ repaired = 0
    /\ ParetoIdle
    /\ SelectionIdle
    /\ SlackIdle
    /\ LogIdle
    /\ CtorIdle
    /\ WheelIdle
    /\ ArchiveIdle

\* MOEE_Algorithm.init_progress, which MOEEC_NSGAII_v1 inherits: pass
InitProgressOfBase ==
    /\ pc = "evaluated"
    /\ pc' = "initialized"
    /\ UNCHANGED <<crossover_method, max_epoch, epoch, heap, self_pop, parents_population,
                   mating_pool, offspring_population, produced_by, log_pop, error,
                   deciderVars, reproVars, otherThanReproductionVars>>

\* offspring_population = self.reproduction(mating_population), of either class
ReproductionCall ==
    /\ pc = "selected"
    /\ \E r \in IF algorithm = "MOEEC_NSGAII_v1"
                 THEN ReproductionV1(heap, mating_pool, solution_length_maximum, fixed_length)
                 ELSE Reproduction(heap, mating_pool, crossover_method,
                                   solution_length_maximum, fixed_length) :
          /\ heap' = r.heap
          /\ offspring_population' = r.offspring
          /\ produced_by' = r.by
          /\ offspring_keys' = r.keys
          /\ error' = r.err
          /\ pc' = IF r.err = "" THEN "reproduced" ELSE "aborted"
    /\ UNCHANGED <<crossover_method, max_epoch, epoch, self_pop, parents_population,
                   mating_pool, log_pop, deciderVars, algorithm, otherThanReproductionVars>>

(***************************************************************************)
(* Roulette wheel selection.  The weights 1.0 / objectives[0] and the draw *)
(* are exact rationals here.                                               *)
(***************************************************************************)
\* the values of objectives[0] (the RMSE) on a front
WheelAccuracies == {0, 1, 2, 4}

NotCalled == [called |-> "none", position |-> 0]

\* [(1.0 / solution.objectives[0]) for solution in front]
WheelWeights(front) ==
    Eager([i \in 1..Len(front) |-> RatDiv(RatInt(1), RatInt(front[i]))])

\* random.uniform(0.0, maximum): a number N with 0.0 <= N <= maximum
UniformDraws(maximum) ==
    {r \in {Rat(n, WheelGrid) : n \in 0..(WheelGrid * MaxWheel)} : RatLeq(r, maximum)}
        \cup {maximum}

RECURSIVE WheelLoop(_, _, _, _)
\* the loop over the solutions i, i+1, ... of the front: the first whose
\* running sum exceeds the draw is returned; position 0 is `return None`
WheelLoop(weights, rand, i, value) ==
    IF i > Len(weights) THEN 0
    ELSE LET sum == RatAdd(value, weights[i])
         IN  IF ~RatLeq(sum, rand) THEN i ELSE WheelLoop(weights, rand, i + 1, sum)

\* RouletteWheelSelection.execute(front) under the draw rand
RouletteWheelSelection(front, rand) ==
    [called |-> "returned", position |-> WheelLoop(WheelWeights(front), rand, 1, RatInt(0))]

InitWheel ==
    /\ wheel_front \in SeqsUpTo(WheelAccuracies, 0, MaxWheel)
    /\ wheel_rand = RatInt(0)
    /\ wheel_result = NotCalled
    /\ ParetoIdle
    /\ GenomeIdle
    /\ DeciderIdle
    /\ SelectionIdle
    /\ SlackIdle
    /\ RunIdle
    /\ LogIdle
    /\ CtorIdle
    /\ ReproIdle
    /\ ArchiveIdle

\* selection_operator.execute(front)
WheelExecute ==
    /\ wheel_result = NotCalled
    /\ IF Len(wheel_front) = 0
       THEN /\ wheel_result' = [called |-> "Exception", position |-> 0]
            /\ UNCHANGED wheel_rand
       ELSE IF \E i \in 1..Len(wheel_front) : wheel_front[i] = 0
       THEN /\ wheel_result' = [called |-> "ZeroDivisionError", position |-> 0]
            /\ UNCHANGED wheel_rand
       ELSE \E maximum \in {RatSum(WheelWeights(wheel_front), 1, Len(wheel_front))} :
            \E rand \in UniformDraws(maximum) :
               /\ wheel_rand' = rand
               /\ wheel_result' = RouletteWheelSelection(wheel_front, rand)
    /\ UNCHANGED <<wheel_front, otherThanWheelVars>>

(***************************************************************************)
(* The archive of non-dominated solutions.  A member is its objective      *)
(* vector.                                                                 *)
(***************************************************************************)
\* del self.solution_list[position - 1]
DeleteAt(list, position) ==
    SubSeq(list, 1, position - 1) \o SubSeq(list, position + 1, Len(list))

RECURSIVE ArchiveLoop(_, _, _, _, _)
\* the loop of add() over the members index, index+1, ... of the copy of the
\* list made when the loop started; list is self.solution_list
ArchiveLoop(solution, copy, index, list, number_of_deleted_solutions) ==
    IF index > Len(copy)
    THEN [list |-> list, is_dominated |-> FALSE, is_contained |-> FALSE]
    ELSE LET is_dominated_flag == DominanceCompare(solution, copy[index])
         IN  IF is_dominated_flag = -1
             THEN ArchiveLoop(solution, copy, index + 1,
                              DeleteAt(list, index - number_of_deleted_solutions),
                              number_of_deleted_solutions + 1)
             ELSE IF is_dominated_flag = 1
             THEN [list |-> list, is_dominated |-> TRUE, is_contained |-> FALSE]
             ELSE IF is_dominated_flag = 0 /\ solution = copy[index]
             THEN [list |-> list, is_dominated |-> FALSE, is_contained |-> TRUE]
             ELSE ArchiveLoop(solution, copy, index + 1, list, number_of_deleted_solutions)

\* an add() that does not look for a member with the same objectives
ArchiveAddWithoutContained(list, solution) ==
    IF Len(list) = 0 THEN [list |-> <<solution>>, returned |-> "True"]
    ELSE LET r == ArchiveLoop(solution, list, 1, list, 0)
         IN  IF ~r.is_dominated
             THEN [list |-> Append(r.list, solution), returned |-> "True"]
             ELSE [list |-> r.list, returned |-> "False"]

\* NonDominatedSolutionsArchive.add(solution): the list it leaves and the
\* value it returns
ArchiveAdd(list, solution) ==
    IF Len(list) = 0 THEN [list |-> <<solution>>, returned |-> "True"]
    ELSE LET r == ArchiveLoop(solution, list, 1, list, 0)
         IN  IF ~r.is_dominated /\ ~r.is_contained
             THEN [list |-> Append(r.list, solution), returned |-> "True"]
             ELSE [list |-> r.list, returned |-> "False"]

\* archive = NonDominatedSolutionsArchive()
InitArchive ==
    /\ solution_list = <<>>
    /\ added = <<>>
    /\ add_returned = "none"
    /\ ParetoIdle
    /\ GenomeIdle
    /\ DeciderIdle
    /\ SelectionIdle
    /\ SlackIdle
    /\ RunIdle
    /\ LogIdle
    /\ CtorIdle
    /\ ReproIdle
    /\ WheelIdle

\* archive.add(solution)
Add(solution) ==
    /\ \E r \in {ArchiveAdd(solution_list, solution)} :
          /\ solution_list' = r.list
          /\ add_returned' = r.returned
    /\ added' = solution
    /\ UNCHANGED otherThanArchiveVars

vars == <<paretoVars, genomeVars, deciderVars, selectionVars, slackVars, runVars, logVars, ctorVars, reproVars, wheelVars, archiveVars>>

NextCompare == \E p, q \in 1..2 : Compare(p, q)
SpecCompare == InitCompare /\ [][NextCompare]_vars

NextRanking == ComputeRankingCall
SpecRanking == InitRanking /\ [][NextRanking]_vars

NextDensity == ComputeDensityCall
SpecDensity == InitFront /\ [][NextDensity]_vars

NextReplace == Replace
SpecReplace == InitReplace /\ [][NextReplace]_vars

NextOperators ==
    \/ \E vs \in VariationStrategies \cup {"None"}, gs \in GeneStrategies \cup {"None"} :
          CrossoverCall(vs, gs)
    \/ OutsideClusterCrossover
    \/ \E target \in 1..2 : MutationCall(target)
    \/ \E target \in 1..2 : FixSolutionCall(target)
    \/ Continue
SpecOperators == InitOperators /\ [][NextOperators]_vars

NextDecider == UpdateMemory
SpecDecider == InitDecider /\ [][NextDecider]_vars

NextExecute ==
    \E vs \in VariationStrategies \cup {"None"}, gs \in GeneStrategies \cup {"None"} :
       ExecuteCall(vs, gs)
SpecExecute == InitExecute /\ [][NextExecute]_vars

NextLoggedDecider == LoggedUpdateMemory
SpecLoggedDecider == InitLoggedDecider /\ [][NextLoggedDecider]_vars

NextSelection == Selection
SpecSelection == InitSelection /\ [][NextSelection]_vars

NextSlackCompare ==
    \/ \E thresholds \in ThresholdMenu : InitThreshold(thresholds)
    \/ \E prefer \in PreferNames \cup {"None"} : SlackCompareCall(prefer)
SpecSlackCompare == InitSlackCompare /\ [][NextSlackCompare]_vars

NextSlackReplace ==
    \/ \E thresholds \in ThresholdMenu : InitThreshold(thresholds)
    \/ SlackReplaceCall
SpecSlackReplace == InitSlackReplace /\ [][NextSlackReplace]_vars

NextRun ==
    \/ CreateInitialPopulation
    \/ EvaluatePopulation
    \/ InitProgress
    \/ RecordPop
    \/ Cluster
    \/ SelectionOfStep
    \/ ReproductionOfStep
    \/ EvaluateOffspring
    \/ ReplacementOfStep
    \/ Finish
SpecRun == InitRun /\ [][NextRun]_vars

\* run() has neither returned nor raised, and control passes to its next phase
RunAdvances ==
    /\ pc \notin {"done", "aborted"}
    /\ pc' \in {"created", "evaluated", "initialized", "loop", "clustered", "selected",
                "reproduced", "aborted", "offspring_evaluated", "replaced", "done"} \ {pc}

\* run() is a sequential program without blocking calls: as long as it has
\* neither returned nor raised it keeps moving to its next phase
SpecRunFair == SpecRun /\ WF_pc(RunAdvances)

NextReproduction ==
    \/ EvaluatePopulation
    \/ (algorithm = "MOEEC_NSGAII_v5" /\ InitProgress)
    \/ (algorithm = "MOEEC_NSGAII_v1" /\ InitProgressOfBase)
    \/ RecordPop
    \/ Cluster
    \/ SelectionOfStep
    \/ ReproductionCall
SpecReproduction == InitReproduction /\ [][NextReproduction]_vars

NextWheel == WheelExecute
SpecWheel == InitWheel /\ [][NextWheel]_vars

NextArchive == \E solution \in Triples : Add(solution)
SpecArchive == InitArchive /\ [][NextArchive]_vars

(***************************************************************************)
(* Properties                                                              *)
(***************************************************************************)
\* Pareto dominance over minimised objectives, stated directly
ParetoDominates(a, b) ==
    /\ \A i \in 1..number_of_objectives : a[i] <= b[i]
    /\ \E i \in 1..number_of_objectives : a[i] < b[i]

\* C1: replace returns exactly len(parents) genomes under both removal
\* policies and never asks for a front past the last one
C1_ReplaceKeepsSize ==
    called # "none" => /\ called = "replace"
                       /\ Len(result_list) = population_size

\* a replacement that took a whole front and cut the next one
C1_Witness ==
    /\ called = "replace"
    /\ \E g \in Range(result_list) : dominance_ranking[g] = 1
    /\ \E h \in DOMAIN objectives : h \notin Range(result_list) /\ dominance_ranking[h] = 1

\* C3: compare returns -1 exactly when a dominates b, +1 exactly when b
\* dominates a, 0 otherwise; it is antisymmetric and compare(a, a) = 0
C3_DominanceCompare ==
    called = "compare" =>
        LET a == objectives[result_list[1]]
            b == objectives[result_list[2]]
        IN /\ compare_result = -1 <=> ParetoDominates(a, b)
           /\ compare_result = 1 <=> ParetoDominates(b, a)
           /\ compare_result \in {-1, 0, 1}
           /\ compare_result = 0 - DominanceCompare(b, a)
           /\ a = b => compare_result = 0

\* two different, mutually non-dominated vectors have been compared
C3_Witness ==
    /\ called = "compare"
    /\ compare_result = 0
    /\ objectives[result_list[1]] # objectives[result_list[2]]

\* C4: the fronts partition the input; front 0 is the set of genomes nobody
\* dominates, front i the non-dominated genomes once fronts 0..i-1 are
\* removed; the rank attribute is the index of the front; the scenario
\* (1,5,2),(2,1,9),(3,3,3) gives one front with all three
C4_FrontsArePeeledLayers ==
    called = "compute_ranking" =>
        LET n == Len(objectives)
            Before(i) == UNION {Range(ranked_sublists[j]) : j \in 1..(i - 1)}
            Left(i) == (1..n) \ Before(i)
            Layer(i) == {g \in Left(i) :
                            ~\E h \in Left(i) : ParetoDominates(objectives[h], objectives[g])}
        IN /\ Len(Flatten(ranked_sublists)) = n
           /\ Range(Flatten(ranked_sublists)) = 1..n
           /\ \A i \in 1..Len(ranked_sublists) :
                 /\ Range(ranked_sublists[i]) = Layer(i)
                 /\ \A g \in Range(ranked_sublists[i]) : dominance_ranking[g] = i - 1
           /\ objectives = ScenarioObjectives => ranked_sublists = << <<1, 2, 3>> >>

\* three fronts, one of them with two genomes
C4_Witness ==
    /\ called = "compute_ranking"
    /\ Len(ranked_sublists) = 3
    /\ \E i \in 1..3 : Len(ranked_sublists[i]) = 2

\* the permutations of the front that are ascending in objective i
Orderings(i) ==
    LET n == Len(objectives)
    IN {s \in [1..n -> 1..n] :
          /\ \A x, y \in 1..n : x # y => s[x] # s[y]
          /\ \A x \in 1..(n - 1) : objectives[s[x]][i] <= objectives[s[x + 1]][i]}

\* (next - previous) / (max - min) of the genome at position x of ordering s
Spread(s, i, x) ==
    LET n == Len(objectives)
        range == objectives[s[n]][i] - objectives[s[1]][i]
        diff == objectives[s[x + 1]][i] - objectives[s[x - 1]][i]
    IN IF range = 0 THEN Fin(diff, 1) ELSE Fin(diff, range)

PositionIn(s, g) == CHOOSE x \in DOMAIN s : s[x] = g

\* C9: fronts of one or two genomes get +inf; in a larger front the two ends
\* of each objective's ordering get +inf and every other genome holds the
\* sum over the objectives of (next - previous)/(max - min), which is >= 0
C9_CrowdingDistance ==
    called = "compute_density_estimator" =>
        LET n == Len(objectives)
        IN IF n <= 2
           THEN \A g \in 1..n : crowding_distance[g] = Inf
           ELSE \E s1 \in Orderings(1), s2 \in Orderings(2), s3 \in Orderings(3) :
                  LET ends == {s1[1], s1[n], s2[1], s2[n], s3[1], s3[n]}
                  IN \A g \in 1..n :
                       IF g \in ends
                       THEN crowding_distance[g] = Inf
                       ELSE /\ crowding_distance[g] =
                                 CDAdd(CDAdd(Spread(s1, 1, PositionIn(s1, g)),
                                             Spread(s2, 2, PositionIn(s2, g))),
                                       Spread(s3, 3, PositionIn(s3, g)))
                            /\ ~crowding_distance[g].inf
                            /\ crowding_distance[g].num >= 0

\* a front of three or more with an interior genome whose distance needed a
\* division by a range larger than one
C9_Witness ==
    /\ called = "compute_density_estimator"
    /\ Len(objectives) >= 3
    /\ \E g \in DOMAIN objectives :
          /\ ~crowding_distance[g].inf
          /\ crowding_distance[g].num > 0
    /\ \E g, h \in DOMAIN objectives : objectives[g][1] - objectives[h][1] >= 2

Rows(g) == RowsOf(g.variables)

\* how often a row occurs in the genomes of a list
Occurrences(list, row) ==
    SumSeq([g \in 1..Len(list) |->
               Cardinality({i \in 1..Len(list[g].variables) : list[g].variables[i].values = row})])

RowSet(list) == UNION {Range(Rows(list[g])) : g \in 1..Len(list)}

SameRows(list1, list2) ==
    \A row \in RowSet(list1) \cup RowSet(list2) :
        Occurrences(list1, row) = Occurrences(list2, row)

WithinBounds(values) ==
    \A j \in 1..para_n : /\ RatLeq(RatInt(para_low[j]), values[j])
                         /\ RatLeq(values[j], RatInt(para_high[j]))

\* C2: after every operator call, k of every genome is the number of rows of
\* its variables and the rows are indexed mkSVR0..mkSVR(k-1)
C2_LengthInvariant ==
    \A g \in DOMAIN genomes :
        /\ genomes[g].k = Len(genomes[g].variables)
        /\ \A i \in 1..genomes[g].k : genomes[g].variables[i].index = i - 1

C2_Witness ==
    /\ lastcall.op = "outside"
    /\ lastcall.branch = "done"
    /\ genomes[1].k + 1 < genomes[2].k

\* C6: a crossover that is performed on parents of lengths k1 <= k2 returns
\* two offspring whose lengths sum to k1 + k2, each with at least one row;
\* under 'fixed' the lengths are exactly (k1, k2), in that order
C6_OffspringLengths ==
    [][(lastcall'.op \in {"crossover", "outside"} /\ lastcall'.branch = "done") =>
          /\ Len(genomes'[1].variables) + Len(genomes'[2].variables) = Shorter + Longer
          /\ Len(genomes'[1].variables) >= 1
          /\ Len(genomes'[2].variables) >= 1
          /\ lastcall'.vs = "fixed" => /\ Len(genomes'[1].variables) = Shorter
                                       /\ Len(genomes'[2].variables) = Longer]_vars

C6_Witness ==
    /\ lastcall.op = "crossover"
    /\ lastcall.branch = "done"
    /\ lastcall.vs = "fixed"
    /\ genomes[1].k = 1
    /\ genomes[2].k = MaxPool - 1

\* C7: with secondary crossover 'nothing' or 'swap' the rows of the two
\* offspring are, as a multiset, the rows of the two parents; with 'nothing'
\* and 'fixed' the first offspring has the rows of the shorter parent
\* position by position and the second a permutation of the longer parent's
C7_RowsPreserved ==
    [][(/\ lastcall'.op = "crossover"
        /\ lastcall'.branch = "done"
        /\ lastcall'.gs \in {"nothing", "swap"}) =>
          /\ SameRows(genomes', genomes)
          /\ (lastcall'.gs = "nothing" /\ lastcall'.vs = "fixed") =>
                \E a \in 1..2 :
                    /\ Len(genomes[a].variables) <= Len(genomes[3 - a].variables)
                    /\ Rows(genomes'[1]) = Rows(genomes[a])
                    /\ SameRows(<<genomes'[2]>>, <<genomes[3 - a]>>)]_vars

C7_Witness ==
    /\ lastcall.op = "crossover"
    /\ lastcall.branch = "done"
    /\ lastcall.gs = "nothing"
    /\ lastcall.vs = "fixed"
    /\ genomes[1].k = 2
    /\ genomes[1].variables[1].values # genomes[1].variables[2].values
    /\ Rows(genomes[2]) # Rows(genomes[1])

\* C8: a mutation adds exactly one row (with every field within its bounds)
\* in the add branch, removes exactly one in the delete branch when the
\* genome has more than one row, and leaves the length alone otherwise; the
\* genome never becomes empty
C8_MutationLength ==
    [][lastcall'.op = "mutation" =>
          LET before == genomes[lastcall'.target]
              after == genomes'[lastcall'.target]
              branch == lastcall'.branch
          IN  /\ branch = "add" =>
                    /\ after.k = before.k + 1
                    /\ Len(after.variables) = Len(before.variables) + 1
                    /\ WithinBounds(after.variables[Len(after.variables)].values)
              /\ (branch = "delete" /\ before.k > 1) =>
                    /\ after.k = before.k - 1
                    /\ Len(after.variables) = Len(before.variables) - 1
              /\ (branch \in {"modify", "gate"} \/ (branch = "delete" /\ before.k = 1)) =>
                    /\ after.k = before.k
                    /\ Len(after.variables) = Len(before.variables)
              /\ after.k >= 1
              /\ Len(after.variables) >= 1]_vars

C8_Witness ==
    /\ lastcall.op = "mutation"
    /\ lastcall.branch = "add"
    /\ genomes[lastcall.target].k = MaxRows

(***************************************************************************)
(* Adaptive strategy deciders                                              *)
(***************************************************************************)
\* a finite number between 0 and 1
IsProbability(x) == x # NaN /\ x[2] > 0 /\ 0 <= x[1] /\ x[1] <= x[2]

\* every strategy has no success and at least one failure in the window
EveryStrategyFailed ==
    \A i \in 1..Len(probability) :
       /\ ColumnSums(success_memory, Len(probability))[i] = 0
       /\ ColumnSums(fail_memory, Len(probability))[i] > 0

\* C5: after any call of update_memory, whatever the counts in the window,
\* the selection probabilities are numbers in [0, 1] that sum to 1.
C5_ProbabilitiesSumToOne ==
    memory_call # "none" =>
       /\ \A i \in 1..Len(probability) : IsProbability(probability[i])
       /\ NpSum(probability) = RatInt(1)

\* C5, where it fails: a full window in which every strategy has failures
\* and no success leaves every probability NaN.
C5_Witness ==
    /\ memory_call = "updated"
    /\ EveryStrategyFailed
    /\ \A i \in 1..Len(probability) : probability[i] = NaN

\* C5, what does hold: the probabilities are numbers in [0, 1] that sum to 1
\* unless the window is one of those, and then all of them are NaN.
C5_DefinedUnlessEveryStrategyFailed ==
    /\ memory_call = "appended" => probability = InitialP(decider)
    /\ memory_call = "updated" =>
          IF EveryStrategyFailed
          THEN \A i \in 1..Len(probability) : probability[i] = NaN
          ELSE /\ \A i \in 1..Len(probability) : IsProbability(probability[i])
               /\ NpSum(probability) = RatInt(1)

(***************************************************************************)
(* Cluster-aware mating selection                                          *)
(***************************************************************************)
\* how many entries of a list of genomes carry the label
LabelCount(list, label) ==
    Cardinality({i \in 1..Len(list) : list[i].cluster_label = label})

\* the genomes of the mating pool
MatingGenomes == [s \in 1..Len(mating_population) |-> pop[mating_population[s]]]

\* C10: the mating pool returned by cluster-aware selection has the size of
\* the population, holds as many genomes of every cluster label as the
\* population does, and every genome selected for a cluster is a member of it.
C10_ClusterCountsPreserved ==
    selected =>
       /\ Len(mating_population) = Len(pop)
       /\ \A s \in 1..Len(mating_population) : mating_population[s] \in 1..Len(pop)
       /\ \A label \in ClusterLabels :
             LabelCount(MatingGenomes, label) = LabelCount(pop, label)
       /\ \A s \in 1..Len(mating_population) :
             pop[mating_population[s]].cluster_label = drawn_from[s]

\* three genomes per label, a slack tournament, one genome selected twice
C10_Witness ==
    /\ selected
    /\ pop = ClusteredPopulation
    /\ IsSlack(selection_operator)
    /\ \A label \in ClusterLabels : LabelCount(MatingGenomes, label) = 3
    /\ \E s, t \in 1..Len(mating_population) :
          s # t /\ mating_population[s] = mating_population[t]

(***************************************************************************)
(* Error handling of the crossover                                         *)
(***************************************************************************)
\* C13: a call of VariableLengthCrossover.execute whose length-variation
\* strategy or gene-crossover strategy is not a recognised name raises an
\* error, whatever the random draws are.
C13_UnrecognisedStrategyRaises ==
    (/\ lastcall.op = "crossover"
     /\ (lastcall.vs \notin VariationStrategies \/ lastcall.gs \notin GeneStrategies))
    => lastcall.branch = "raise"

\* C13, where it fails: the draw of the probability gate is above the
\* crossover probability, and the call returns its parents without an error
\* although the strategy is not a recognised name.
C13_Witness ==
    /\ lastcall.op = "crossover"
    /\ lastcall.vs \notin VariationStrategies
    /\ lastcall.branch = "gate"
    /\ lastcall.err = ""

(***************************************************************************)
(* The floor of the adaptive deciders                                      *)
(***************************************************************************)
\* C14: after every probability update with a full window, every strategy
\* has a strictly positive selection probability (an undefined or zero
\* success ratio is replaced by the floor 1e-2 before normalisation).
C14_NoStrategyStarved ==
    memory_call = "updated"
    => \A i \in 1..Len(probability) :
          /\ probability[i] # NaN
          /\ probability[i][1] > 0
          /\ probability[i][2] > 0

\* C14, where it fails: a strategy with failures and no success in the
\* window has the ratio 0, which is not NaN and so is not floored; another
\* strategy has a positive ratio, and the normalised probability is 0.
C14_Witness ==
    /\ memory_call = "updated"
    /\ \E i, j \in 1..Len(probability) :
          /\ probability[i] = RatInt(0)
          /\ probability[j][1] > 0
          /\ probability[j][2] > 0

(***************************************************************************)
(* The names of the two truncation policies                                *)
(***************************************************************************)
\* what the single-pass policy (policy = "ONE_SHOT") and the
\* recompute-each-removal policy (policy = "SEQUENTIAL") return on the
\* joined population of the state
TruncatedBy(policy) ==
    LET fronts == ComputeRanking(objectives, dominance_ranking).fronts
        cd0 == Eager([g \in 1..Len(objectives) |-> Unset])
    IN  IF policy = "ONE_SHOT"
        THEN one_shot_truncation(objectives, fronts, cd0, 0, population_size).list
        ELSE sequential_truncation(objectives, fronts, cd0, 0, population_size).list

\* C18: with removal_policy 'ONE_SHOT' replace() returns what the single-pass
\* truncation returns (distance computed once, members taken in descending
\* order of distance), and with 'SEQUENTIAL' what the recompute-each-removal
\* truncation returns.
C18_PolicyNamesItsTruncation ==
    called = "replace" => result_list = TruncatedBy(removal_policy)

\* C18, where it fails: replace() ran with 'ONE_SHOT' and kept a set of
\* genomes that the recompute-each-removal policy keeps and the single-pass
\* policy does not.
C18_Witness ==
    /\ called = "replace"
    /\ removal_policy = "ONE_SHOT"
    /\ Range(result_list) # Range(TruncatedBy("ONE_SHOT"))
    /\ result_list = TruncatedBy("SEQUENTIAL")

(***************************************************************************)
(* The repair of an oversized genome                                       *)
(***************************************************************************)
\* C20: in variable-length mode fix_solution never fails, and the genome it
\* returns has 1 <= k <= solution_length_maximum, for every configured
\* maximum.
C20_RepairedWithinMaximum ==
    (lastcall.op = "fix_solution" /\ fixed_length = -1)
    => /\ lastcall.err = ""
       /\ genomes[lastcall.target].k >= 1
       /\ genomes[lastcall.target].k <= solution_length_maximum

\* C20, where it fails: the maximum is below the 40 rows that the repair
\* always samples, and a genome longer than the maximum but shorter than 40
\* rows makes the sampling raise.
C20_Witness ==
    /\ lastcall.op = "fix_solution"
    /\ fixed_length = -1
    /\ solution_length_maximum < sample_n
    /\ genomes[lastcall.target].k > solution_length_maximum
    /\ genomes[lastcall.target].k < sample_n
    /\ lastcall.err = "ValueError"

(***************************************************************************)
(* The rank value of a cluster                                             *)
(***************************************************************************)
\* the mean, over the members of the cluster, of the members' ranks in
\* objective o
MeanRankOfMembers(population, label, o) ==
    Rat(ClusterRankSums(population, label)[o], LabelCount(population, label))

\* C16: the value that get_advantage_objs attributes to a cluster in an
\* objective is the sum of its members' population-wide ranks divided by
\* the size of the cluster.
C16_ClusterValueIsMeanRank ==
    (selected /\ IsSlack(selection_operator))
    => \A label \in ClusterLabels : \A o \in 1..number_of_objectives :
          LabelCount(pop, label) > 0
          => cluster_mean_ranks(pop, label)[o] = MeanRankOfMembers(pop, label, o)

\* C16, where it fails: a cluster of one genome in a population of three;
\* the genome has rank 2 in an objective, and the value of the cluster is
\* 2/3 where the mean rank of its members is 2.
C16_Witness ==
    /\ selected
    /\ IsSlack(selection_operator)
    /\ Len(pop) = 3
    /\ \E label \in ClusterLabels : \E o \in 1..number_of_objectives :
          /\ LabelCount(pop, label) = 1
          /\ MeanRankOfMembers(pop, label, o) = RatInt(2)
          /\ cluster_mean_ranks(pop, label)[o] = Rat(2, 3)

(***************************************************************************)
(* The slack comparison                                                    *)
(***************************************************************************)
\* objective positions: 1 accuracy (RMSE), 2 diversity, 3 complexity
PriorityOrder(prefer) ==
    CASE prefer = "RMSE" -> <<1, 3, 2>>
      [] prefer = "Diversity" -> <<2, 1, 3>>
      [] prefer = "Complexity" -> <<3, 1, 2>>

\* the two compared values of objective o differ by at most its threshold
TiedWithin(o) ==
    RatLeq(RatInt(Abs(candidates[1].objectives[o] - candidates[2].objectives[o])),
           comparator_thresholds[o])

\* -1 when the first genome has the lower value of objective o, 1 when the second has
LowerWins(o) ==
    IF candidates[1].objectives[o] < candidates[2].objectives[o] THEN -1
    ELSE IF candidates[1].objectives[o] > candidates[2].objectives[o] THEN 1 ELSE 0

\* C17 as stated: compare() is lexicographic over the priority order of the
\* preferred objective, two values being tied at each of the three levels
\* when they differ by at most that objective's threshold; the first level
\* that is not tied decides, and the result is 0 exactly when all three
\* objectives are tied within their thresholds.
C17_LexicographicWithThreeThresholds ==
    slack_called = "compare"
    => LET order == PriorityOrder(preferred)
       IN  /\ slack_result = IF ~TiedWithin(order[1]) THEN LowerWins(order[1])
                             ELSE IF ~TiedWithin(order[2]) THEN LowerWins(order[2])
                             ELSE IF ~TiedWithin(order[3]) THEN LowerWins(order[3])
                             ELSE 0
           /\ slack_result = 0 <=> \A o \in 1..number_of_objectives : TiedWithin(o)

\* C17, amended: the thresholds apply at the first two levels only; when
\* both are tied the third objective decides by exact comparison, and the
\* result is 0 exactly when the first two levels are tied within their
\* thresholds and the third objective is equal.
C17_LexicographicExactThirdLevel ==
    slack_called = "compare"
    => LET order == PriorityOrder(preferred)
       IN  /\ slack_result = IF ~TiedWithin(order[1]) THEN LowerWins(order[1])
                             ELSE IF ~TiedWithin(order[2]) THEN LowerWins(order[2])
                             ELSE LowerWins(order[3])
           /\ slack_result = 0 <=>
                 /\ TiedWithin(order[1])
                 /\ TiedWithin(order[2])
                 /\ candidates[1].objectives[order[3]] = candidates[2].objectives[order[3]]

\* C17: a comparison in which all three objectives are within their
\* thresholds and the third-level objective differs; the result is not 0.
C17_Witness ==
    /\ slack_called = "compare"
    /\ \A o \in 1..number_of_objectives : TiedWithin(o)
    /\ LowerWins(PriorityOrder(preferred)[3]) # 0
    /\ slack_result = LowerWins(PriorityOrder(preferred)[3])

(***************************************************************************)
(* The elite-plus-tournament replacement                                   *)
(***************************************************************************)
\* round(elite_ratio * N)
EliteNum == Round(RatMul(elite_ratio, RatInt(parents_len)))[1]

\* C19: replace() on a freshly constructed instance (nobody has given its
\* comparator thresholds) completes without error whenever the rest of the
\* joined pool is non-empty, and returns N = len(parents) genomes: first the
\* round(elite_ratio * N) best by accuracy, then tournament winners drawn
\* from the rest of the pool.
C19_FreshReplaceCompletes ==
    (/\ slack_called # "none"
     /\ comparator_thresholds = <<>>
     /\ Len(candidates) > EliteNum)
    => /\ slack_called = "replace"
       /\ Len(slack_result) = parents_len
       /\ \A i \in 1..EliteNum : \A j \in 1..Len(candidates) :
             j \notin {slack_result[e] : e \in 1..EliteNum}
             => candidates[slack_result[i]].objectives[1] <= candidates[j].objectives[1]
       /\ \A i \in (EliteNum + 1)..parents_len :
             slack_result[i] \notin {slack_result[e] : e \in 1..EliteNum}

\* C19, where it fails: a slot is left for the tournament and the rest of
\* the pool holds two genomes or more; the fresh comparator has no
\* thresholds and the first comparison raises.
C19_Witness ==
    /\ comparator_thresholds = <<>>
    /\ EliteNum < parents_len
    /\ Len(candidates) - EliteNum >= 2
    /\ slack_called = "AttributeError"

\* the phases of step() in which replacement has not yet completed, and the
\* state in which step() was left by an exception
InsideStep == pc \in {"clustered", "selected", "reproduced", "offspring_evaluated",
                      "aborted"}

\* C12: each generation is atomic: from the start of a step until replacement
\* completes, and when the step is left by an error, the genomes of the live
\* population self.pop have the k and the objectives they had at the previous
\* generation boundary (the snapshot recorded before the step)
C12_LivePopulationUnchangedInStep ==
    InsideStep =>
        /\ Len(self_pop) = Len(log_pop[epoch])
        /\ \A i \in 1..Len(self_pop) :
              /\ heap[self_pop[i]].k = log_pop[epoch][i].length
              /\ heap[self_pop[i]].objectives = log_pop[epoch][i].objectives

\* the step was left by the ValueError of fix_solution, and a genome of the
\* live population has a length that the snapshot before the step does not show
C12_Witness ==
    /\ pc = "aborted"
    /\ error = "ValueError"
    /\ \E i \in 1..Len(self_pop) : heap[self_pop[i]].k # log_pop[epoch][i].length

\* the states in which reproduction has returned the offspring pool
PoolReturned == pc \in {"reproduced", "offspring_evaluated"}

\* C15: in every generation a genome of the offspring pool carries
\* strategy_flag 1 only if a crossover of that generation produced it, and
\* then its strategy names the crossover applied in that generation; a genome
\* that passed through reproduction uncrossed carries strategy_flag 0
C15_FlagMarksChildrenOfThisGeneration ==
    PoolReturned =>
        \A i \in 1..Len(offspring_population) :
            LET g == heap[offspring_population[i]]
            IN  /\ g.strategy_flag = 1 =>
                      /\ produced_by[i] \in {"inside", "outside"}
                      /\ g.strategy = produced_by[i]
                /\ produced_by[i] \notin {"inside", "outside"} => g.strategy_flag = 0

\* second generation: a genome of the pool that no crossover call of this
\* generation saw (odd remainder, unpaired member of a half-pool) still
\* carries the strategy_flag 1 and the label it was given a generation ago
C15_Witness ==
    /\ pc = "reproduced"
    /\ epoch = 1
    /\ \E i \in 1..Len(offspring_population) :
          /\ produced_by[i] = "no"
          /\ heap[offspring_population[i]].strategy_flag = 1
          /\ heap[offspring_population[i]].strategy \in {"inside", "outside"}

\* one step of run(): the phase that was left, the phase that was entered
PhaseOrder ==
    \/ pc = "start" /\ pc' = "created"
    \/ pc = "created" /\ pc' = "evaluated"
    \/ pc = "evaluated" /\ pc' = "initialized"
    \/ pc = "initialized" /\ pc' = "loop"
    \/ pc = "loop" /\ pc' = "clustered"
    \/ pc = "clustered" /\ pc' = "selected"
    \/ pc = "selected" /\ pc' \in {"reproduced", "aborted"}
    \/ pc = "reproduced" /\ pc' = "offspring_evaluated"
    \/ pc = "offspring_evaluated" /\ pc' = "replaced"
    \/ pc = "replaced" /\ pc' = "loop"
    \/ pc = "loop" /\ pc' = "done"

\* a step is counted when it starts, and only then; one snapshot is added
\* under the next key when the loop is entered or re-entered, and only then
CountedAndRecorded ==
    /\ epoch' = IF pc' = "clustered" THEN epoch + 1 ELSE epoch
    /\ IF pc' = "loop"
       THEN /\ DOMAIN log_pop' = 0..(epoch + 1)
            /\ \A e \in 0..epoch : log_pop'[e] = log_pop[e]
            /\ log_pop'[epoch + 1] = Snapshot(heap, self_pop)
       ELSE log_pop' = log_pop

\* the run has returned: max_epoch steps were made and the snapshots are
\* keyed 0..max_epoch
ReturnedAfterMaxEpoch ==
    pc = "done" => /\ epoch + 1 = max_epoch
                   /\ DOMAIN log_pop = 0..max_epoch

\* C11: a run goes through creation, evaluation and init_progress once, in
\* this order, then through the steps, each in the order cluster, select,
\* reproduce, evaluate offspring, replace; a snapshot is recorded before the
\* first step and after each step; the run ends, and when it returns (no
\* phase raised) it has made exactly max_epoch steps and holds the
\* max_epoch + 1 snapshots keyed 0..max_epoch
C11_RunOrder ==
    /\ [][PhaseOrder /\ CountedAndRecorded]_vars
    /\ []ReturnedAfterMaxEpoch
    /\ <>(pc \in {"done", "aborted"})

\* a run of MaxEpoch steps has returned with its MaxEpoch + 1 snapshots
C11_Witness ==
    /\ pc = "done"
    /\ max_epoch = MaxEpoch
    /\ epoch = MaxEpoch - 1
    /\ DOMAIN log_pop = 0..MaxEpoch

\* the genomes of the joint pool that no genome of the pool dominates
NonDominatedOfPool ==
    {g \in DOMAIN objectives :
        \A h \in DOMAIN objectives : DominanceCompare(objectives[h], objectives[g]) # -1}

\* C21: the result of replace is every genome of the fronts 0..j-1 of the
\* joint pool and part of front j, for some j: no genome left out has a
\* lower dominance rank than a genome kept, and when front 0 has at most
\* population_size members every non-dominated genome of the pool is kept
C21_WholeFrontsThenPartOfOne ==
    called = "replace" =>
        LET kept == Range(result_list)
            left == DOMAIN objectives \ kept
        IN  /\ \A g \in kept, h \in left : dominance_ranking[h] >= dominance_ranking[g]
            /\ \E j \in 0..Len(objectives) :
                  /\ \A g \in DOMAIN objectives : dominance_ranking[g] < j => g \in kept
                  /\ \A g \in kept : dominance_ranking[g] <= j
            /\ Cardinality(NonDominatedOfPool) <= population_size
                  => NonDominatedOfPool \subseteq kept

\* the first front fits and is kept whole, the second front is cut: one of
\* its genomes is kept and another is left out
C21_Witness ==
    /\ called = "replace"
    /\ Cardinality(NonDominatedOfPool) < population_size
    /\ NonDominatedOfPool \subseteq Range(result_list)
    /\ \E g, h \in DOMAIN objectives \ NonDominatedOfPool :
          /\ g \in Range(result_list)
          /\ h \notin Range(result_list)
          /\ dominance_ranking[g] = dominance_ranking[h]

(***************************************************************************)
(* The learning period and the window of the adaptive deciders             *)
(***************************************************************************)
\* C22: through the first LP calls of update_memory the selection
\* probabilities are the initial uniform ones, whatever counts are reported;
\* a call changes them only when LP calls were made before it
C22_UniformThroughLearningPeriod ==
    Len(reported) <= LP => probability = InitialP(decider)

\* the learning period of MaxLP calls has just ended, counts were reported
\* in it, and the probabilities are still uniform
C22_Witness ==
    /\ LP = MaxLP
    /\ Len(reported) = LP
    /\ memory_call = "appended"
    /\ \E c \in 1..Len(reported), s \in 1..Len(probability) :
          reported[c].total[s] > 0 /\ reported[c].survived[s] = 0
    /\ probability = InitialP(decider)

\* the smaller of two naturals
Smaller(a, b) == IF a < b THEN a ELSE b

\* C23: after n calls of update_memory the two memories have min(n, LP) rows,
\* row i holds the counts of the i-th of the most recent min(n, LP) calls
\* (success: the survivors, at most the strategy's total; failure: the rest
\* of the total), every failure count is >= 0 and every success count is at
\* most the total of its generation
C23_WindowOfRecentCounts ==
    LET n == Len(reported)
        m == Smaller(n, LP)
    IN  /\ Len(success_memory) = m
        /\ Len(fail_memory) = m
        /\ \A i \in 1..m : \A s \in 1..Len(StrategyKeys(decider)) :
              LET call == reported[n - m + i]
              IN  /\ success_memory[i][s] = Smaller(call.survived[s], call.total[s])
                  /\ fail_memory[i][s] = call.total[s] - success_memory[i][s]
                  /\ fail_memory[i][s] >= 0
                  /\ success_memory[i][s] <= call.total[s]

\* more calls than the window holds were made, the oldest is gone, and a
\* generation with more survivors than children of a strategy is stored capped
C23_Witness ==
    /\ Len(reported) > LP
    /\ Len(success_memory) = LP
    /\ reported[1] # reported[Len(reported) - LP + 1]
    /\ \E i \in 1..LP, s \in 1..Len(StrategyKeys(decider)) :
          /\ reported[Len(reported) - LP + i].survived[s]
                > reported[Len(reported) - LP + i].total[s]
          /\ success_memory[i][s] = reported[Len(reported) - LP + i].total[s]

(***************************************************************************)
(* The advantage objective of a cluster                                    *)
(***************************************************************************)
\* the rank of every cluster among the three clusters, objective by
\* objective, by the clusters' values in that objective (rank_obj_matrix of
\* the source): ranks[o][label + 1], 0 for the cluster with the lowest value
ColumnwiseRanks(population) ==
    LET sums == Eager([c \in 1..3 |-> ClusterRankSums(population, c - 1)])
    IN  Eager([o \in 1..number_of_objectives |->
                  get_rank(Eager([c \in 1..3 |-> sums[c][o]]))])

\* the objectives in which the cluster has its lowest columnwise rank
BestObjectives(ranks, label) ==
    {o \in 1..number_of_objectives :
        \A q \in 1..number_of_objectives : ranks[o][label + 1] <= ranks[q][label + 1]}

\* C25: the advantage objective of a cluster is one in which its columnwise
\* rank is lowest; accuracy when all three objectives share the lowest rank,
\* accuracy when two share it and one of them is accuracy, complexity when
\* diversity and complexity share it
C25_AdvantageObjectiveAndTies ==
    (selected /\ IsSlack(selection_operator))
    => \E ranks \in {ColumnwiseRanks(pop)} :
       \A label \in ClusterLabels :
       \E best \in {BestObjectives(ranks, label)} :
          LET obj == advantage_objs[label + 1]
          IN  /\ \E o \in best : obj = ObjectiveNames[o]
              /\ best = {1, 2, 3} => obj = "RMSE"
              /\ (Cardinality(best) = 2 /\ 1 \in best) => obj = "RMSE"
              /\ best = {2, 3} => obj = "Complexity"

\* the three kinds of tie in one population: one cluster with the same rank
\* in all objectives, one lowest in accuracy and another objective, one
\* lowest in diversity and complexity
C25_Witness ==
    /\ selected
    /\ IsSlack(selection_operator)
    /\ \E ranks \in {ColumnwiseRanks(pop)} :
          /\ \E label \in ClusterLabels :
                /\ BestObjectives(ranks, label) = {2, 3}
                /\ advantage_objs[label + 1] = "Complexity"
          /\ \E label \in ClusterLabels :
                /\ Cardinality(BestObjectives(ranks, label)) = 2
                /\ 1 \in BestObjectives(ranks, label)
                /\ advantage_objs[label + 1] = "RMSE"

(***************************************************************************)
(* The strategies of the constructor and of the call                       *)
(***************************************************************************)
\* a pair <<variation strategy, gene crossover>> of recognised names
ValidStrategies(pair) == pair[1] \in VariationStrategies /\ pair[2] \in GeneStrategies

\* C26: execute() works with the strategies passed to it only when both
\* constructor strategies are 'TBD'; otherwise it works with the
\* constructor's pair and ignores what was passed, so that a constructor
\* with exactly one 'TBD' makes every crossover that passes the probability
\* gate raise the invalid-strategy error
C26_PassedStrategiesNeedBothTBD ==
    lastcall.op = "execute" =>
        LET constructed == <<self_variation_strategy, self_gene_crossover>>
            bothTBD == constructed = <<"TBD", "TBD">>
            used == <<lastcall.vs, lastcall.gs>>
            triggered == lastcall.branch # "gate"
        IN  /\ used = IF bothTBD THEN passed_strategies ELSE constructed
            /\ triggered => (lastcall.err = "AttributeError" <=> ~ValidStrategies(used))
            /\ (~bothTBD /\ "TBD" \in {constructed[1], constructed[2]} /\ triggered)
                  => lastcall.err = "AttributeError"

\* one 'TBD' in the constructor, two recognised strategies passed to the
\* call, and the crossover that passed the gate raised
C26_Witness ==
    /\ lastcall.op = "execute"
    /\ self_variation_strategy = "TBD"
    /\ self_gene_crossover \in GeneStrategies
    /\ ValidStrategies(passed_strategies)
    /\ lastcall.branch = "raise"
    /\ lastcall.err = "AttributeError"

\* C24: whenever reproduction returns, of MOEEC_NSGAII_v1 and of every
\* crossover_method of MOEEC_NSGAII_v5, the offspring pool has as many genomes
\* as the mating pool, and as many under each cluster key as the mating pool
\* has genomes of that cluster
C24_PoolSizeAndKeyCountsKept ==
    [][pc = "selected" /\ pc' = "reproduced" =>
          LET subs == SubMatingPopulations(heap, mating_pool)
          IN  /\ Len(offspring_population') = Len(mating_pool)
              /\ Len(offspring_keys') = Len(offspring_population')
              /\ \A s \in 1..Len(offspring_keys') : offspring_keys'[s] \in 1..Len(subs)
              /\ \A c \in 1..Len(subs) :
                     Cardinality({s \in 1..Len(offspring_keys') : offspring_keys'[s] = c})
                         = Len(subs[c])]_vars

\* a pool came back from a cluster of three: one pair crossed above the gate
\* and the genome left over
C24_Witness ==
    /\ pc = "reproduced"
    /\ Len(offspring_population) = RunPopulationSize
    /\ \E s \in 1..Len(offspring_keys) :
          /\ offspring_keys[s] = 1
          /\ Cardinality({t \in 1..Len(offspring_keys) : offspring_keys[t] = 1}) = 3
          /\ produced_by[s] = "inside"

\* the positions of a list of references hold different objects
OneObjectPerPosition(list) ==
    \A i, j \in 1..Len(list) : list[i] = list[j] => i = j

\* C27: no genome object occupies two positions of the offspring pool that
\* reproduction returns, nor two positions of the population that
\* replacement returns
C27_NoGenomeAtTwoPositions ==
    /\ PoolReturned => OneObjectPerPosition(offspring_population)
    /\ pc \in {"replaced", "loop", "done"} => OneObjectPerPosition(self_pop)

\* the tournament drew one genome twice and the next population holds it
\* at two positions
C27_Witness ==
    /\ pc = "replaced"
    /\ \E i, j \in 1..Len(self_pop) : i < j /\ self_pop[i] = self_pop[j]

\* C28: the inter-cluster pass of MOEEC_NSGAII_v5 completes without error on
\* every mating pool of three or more genomes with cluster labels in 0..2,
\* pools with only one or two distinct labels included
C28_OutsidePassCompletes ==
    (/\ crossover_method = "outside"
     /\ Len(mating_pool) >= 3
     /\ \A i \in 1..Len(mating_pool) : heap[mating_pool[i]].cluster_label \in ClusterLabels)
        => error # "KeyError"

\* the pass raised on a pool of three genomes with two distinct labels
C28_Witness ==
    /\ pc = "aborted"
    /\ error = "KeyError"
    /\ crossover_method = "outside"
    /\ Len(mating_pool) = 3
    /\ Cardinality({heap[mating_pool[i]].cluster_label : i \in 1..Len(mating_pool)}) = 2

\* C29: RouletteWheelSelection.execute on a non-empty front whose accuracy
\* objectives are all positive returns a member of the front, whatever value
\* of the closed interval [0, sum of 1/accuracy] is drawn
C29_RouletteReturnsAMember ==
    (/\ wheel_result.called # "none"
     /\ Len(wheel_front) > 0
     /\ \A i \in 1..Len(wheel_front) : wheel_front[i] > 0)
        => /\ wheel_result.called = "returned"
           /\ wheel_result.position \in 1..Len(wheel_front)

\* the draw was the upper end of the interval and execute() returned None
C29_Witness ==
    /\ wheel_result = [called |-> "returned", position |-> 0]
    /\ Len(wheel_front) > 1
    /\ wheel_rand = RatSum(WheelWeights(wheel_front), 1, Len(wheel_front))

\* a is at least as good as b in every objective and better in one
VectorDominates(a, b) ==
    /\ \A o \in 1..Len(a) : a[o] <= b[o]
    /\ \E o \in 1..Len(a) : a[o] < b[o]

MutuallyNonDominatedAndDistinct ==
    \A i, j \in 1..Len(solution_list) :
        i # j => /\ ~VectorDominates(solution_list[i], solution_list[j])
                 /\ solution_list[i] # solution_list[j]

\* add(s) on the archive as it was: True exactly when no member dominates s
\* or has its objectives; then the members s dominates are gone, the others
\* keep their order and s is last; otherwise the archive is as it was
AddEffect ==
    LET s == added'
        accepted == \A i \in 1..Len(solution_list) :
                        /\ ~VectorDominates(solution_list[i], s)
                        /\ solution_list[i] # s
    IN  /\ add_returned' = (IF accepted THEN "True" ELSE "False")
        /\ solution_list' = (IF accepted
                             THEN Append(SelectSeq(solution_list,
                                                   LAMBDA m : ~VectorDominates(s, m)), s)
                             ELSE solution_list)

\* C30: after any sequence of add calls no member of the archive dominates
\* another and no two have equal objectives; add(s) returns True exactly when
\* s is neither dominated by nor equal in objectives to a member, then removes
\* exactly the members s dominates and appends s, and otherwise leaves the
\* archive unchanged
C30_ArchiveOfNonDominated ==
    []MutuallyNonDominatedAndDistinct /\ [][AddEffect]_vars

\* the archive holds two or more members and add() refused a solution whose
\* objectives a member has
C30_Witness ==
    /\ add_returned = "False"
    /\ Len(solution_list) >= 2
    /\ added \in Range(solution_list)

=============================================================================
